---- MODULE Spec2Model ----
(***************************************************************************)
(* Membership / credential core of task_station_backend.                   *)
(*                                                                         *)
(* The tables of the Prisma schema are sequences of rows; a row's id is    *)
(* its index.  Rows are never removed (soft delete sets deletedAt).        *)
(* Every service method is one action: one request runs to completion.     *)
(* Columns that no modelled decision reads (phone, description, legalName, *)
(* createdById, updatedAt) are left out of the rows.                       *)
(***************************************************************************)
EXTENDS Integers, Sequences, FiniteSets, TLC

\* ---------------------------------------------------------------- bounds
MaxUsers == 3
MaxCompanies == 2
MaxWorkspaces == 2
MaxMemberships == 5
\* membership rows a run of the whole lifecycle (Spec) may hold
MaxLifecycleMemberships == 4
MaxTokens == 3
MaxTicks == 1

\* ------------------------------------------------------------- constants
\* a NULL timestamp column (timestamps are >= 0)
Null == -1

\* PASSWORD_RESET_EXPIRES_IN default: 3600 s = 1 hour (clock unit: hour)
PasswordResetTtl == 1
\* FIRST_ACCESS_EXPIRES_DAYS default: 7 days = 168 hours
FirstAccessTtl == 168

\* an email / a name is a sequence of characters
SeedEmail == <<"r", "@", "t">>
Emails == {SeedEmail, <<"a", "@", "x">>, <<"b", "@", "x">>}
SeedName == <<"S">>
SeedPassword == "seed"
Passwords == {"p1", "p2"}
\* the name a first-access form carries (it needs trimming)
Names == {<<" ", "N", " ">>}
TaxIds == {1, 2}
\* dto.legalName of the request that carries taxId: a name is the place it
\* has in the order of localeCompare (the company of taxId 2 sorts first)
LegalNameOf(taxId) == 3 - taxId

\* ----------------------------------------------------------------- state
VARIABLES users, companies, workspaces, memberships, tokens, now, ticks, lastOp,
          calls

vars == <<users, companies, workspaces, memberships, tokens, now, ticks, lastOp,
          calls>>

\* ------------------------------------------------------ pure conversions
\* bcrypt.hash(password, 10): one-way, never equal to the password itself
Bcrypt(password) == <<"bcrypt", password>>

\* crypto.createHash('sha256').update(rawToken).digest('hex')
Sha256(rawToken) == <<"sha256", rawToken>>

\* placeholder hash of a provisioned user: bcrypt of 32 random bytes
PlaceholderHash == Bcrypt("random")

RECURSIVE LocalPart(_)
\* adminEmail.split('@')[0]
LocalPart(email) ==
  IF email = <<>> \/ Head(email) = "@" THEN <<>>
  ELSE <<Head(email)>> \o LocalPart(Tail(email))

RECURSIVE TrimStart(_)
TrimStart(s) == IF s # <<>> /\ Head(s) = " " THEN TrimStart(Tail(s)) ELSE s

RECURSIVE TrimEnd(_)
TrimEnd(s) ==
  IF s # <<>> /\ s[Len(s)] = " " THEN TrimEnd(SubSeq(s, 1, Len(s) - 1)) ELSE s

\* String.prototype.trim()
Trim(s) == TrimEnd(TrimStart(s))

\* ------------------------------------------------------------ row queries
UserIds == DOMAIN users
CompanyIds == DOMAIN companies
WorkspaceIds == DOMAIN workspaces
MembershipIds == DOMAIN memberships
TokenIds == DOMAIN tokens

\* prisma.user.findFirst({ where: { email, deletedAt: null } })
findUserByEmail(email) ==
  {u \in UserIds : users[u].email = email /\ users[u].deletedAt = Null}

\* prisma.user.findFirst({ where: { id, deletedAt: null } })
findUserById(id) ==
  {u \in UserIds : u = id /\ users[u].deletedAt = Null}

findCompanyByTaxId_withDeleted(taxId) ==
  {c \in CompanyIds : companies[c].taxId = taxId}

\* prisma.company.findFirst({ where: { taxId, deletedAt: null } })
findCompanyByTaxId(taxId) ==
  {c \in CompanyIds : companies[c].taxId = taxId /\ companies[c].deletedAt = Null}

\* prisma.company.findFirst({ where: { taxId, deletedAt: null, id: { not: excludeId } } })
findCompanyByTaxIdExcluding(taxId, excludeId) ==
  {c \in findCompanyByTaxId(taxId) : c # excludeId}

\* prisma.company.findFirst({ where: { id, deletedAt: null } })
findCompanyById(id) ==
  {c \in CompanyIds : c = id /\ companies[c].deletedAt = Null}

\* prisma.workspace.findMany({ where: { companyId, deletedAt: null } })
workspaceIdsOf(companyId) ==
  {w \in WorkspaceIds :
     workspaces[w].companyId = companyId /\ workspaces[w].deletedAt = Null}

\* active rows of a user at one scope
activeAt(userId, resourceType, resourceId) ==
  {m \in MembershipIds :
     /\ memberships[m].userId = userId
     /\ memberships[m].resourceType = resourceType
     /\ memberships[m].resourceId = resourceId
     /\ memberships[m].deletedAt = Null}

\* active company-scope admin rows of a user
activeAdminRows(companyId, userId) ==
  {m \in activeAt(userId, "company", companyId) : memberships[m].role = "admin"}

\* where: { userId, deletedAt: null, OR: [company row, rows at the company's
\* non-deleted workspaces] }
anyActiveMembership_companyOnly(companyId, userId) ==
  {m \in MembershipIds :
     /\ memberships[m].userId = userId
     /\ memberships[m].deletedAt = Null
     /\ memberships[m].resourceType = "company"
     /\ memberships[m].resourceId = companyId}

anyActiveMembership(companyId, userId) ==
  {m \in MembershipIds :
     /\ memberships[m].userId = userId
     /\ memberships[m].deletedAt = Null
     /\ \/ /\ memberships[m].resourceType = "company"
           /\ memberships[m].resourceId = companyId
        \/ /\ memberships[m].resourceType = "workspace"
           /\ memberships[m].resourceId \in workspaceIdsOf(companyId)}

\* all active admin rows of a company
adminsOf(companyId) ==
  {m \in MembershipIds :
     /\ memberships[m].resourceType = "company"
     /\ memberships[m].resourceId = companyId
     /\ memberships[m].role = "admin"
     /\ memberships[m].deletedAt = Null}

\* prisma.membership.create({ data }) appended to rows
newMembership(userId, resourceType, resourceId, role) ==
  [userId |-> userId, resourceType |-> resourceType, resourceId |-> resourceId,
   role |-> role, createdAt |-> now, deletedAt |-> Null]

\* prisma.membership.update({ where: { id }, data: { deletedAt: new Date() } })
softDelete(rows, ids) ==
  [m \in DOMAIN rows |->
     IF m \in ids THEN [rows[m] EXCEPT !.deletedAt = now] ELSE rows[m]]

\* ------------------------------------------------------------ token rows
invalidateTokensByType_anyKind(rows, userId, type) ==
  [t \in DOMAIN rows |->
     IF rows[t].userId = userId /\ rows[t].usedAt = Null
     THEN [rows[t] EXCEPT !.usedAt = now] ELSE rows[t]]

\* passwordResetToken.updateMany({ where: { userId, usedAt: null, type },
\*                                 data: { usedAt: new Date() } })
invalidateTokensByType(rows, userId, type) ==
  [t \in DOMAIN rows |->
     IF rows[t].userId = userId /\ rows[t].usedAt = Null /\ rows[t].type = type
     THEN [rows[t] EXCEPT !.usedAt = now] ELSE rows[t]]

\* the raw token of the next row: crypto.randomBytes(32), never seen before
freshRawToken(rows) == Len(rows) + 1

issueFirstAccess_noInvalidate(rows, userId) ==
  Append(rows,
         [userId |-> userId, tokenHash |-> Sha256(freshRawToken(rows)),
          type |-> "first_access", usedAt |-> Null,
          expiresAt |-> now + FirstAccessTtl])

\* rows after AuthService.generateFirstAccessToken(userId)
issueFirstAccess(rows, userId) ==
  Append(invalidateTokensByType(rows, userId, "first_access"),
         [userId |-> userId, tokenHash |-> Sha256(freshRawToken(rows)),
          type |-> "first_access", usedAt |-> Null,
          expiresAt |-> now + FirstAccessTtl])

\* rows after the token part of AuthService.forgotPassword(user); the create
\* leaves `type` to the column default 'password_reset'
issuePasswordReset(rows, userId) ==
  Append(invalidateTokensByType(rows, userId, "password_reset"),
         [userId |-> userId, tokenHash |-> Sha256(freshRawToken(rows)),
          type |-> "password_reset", usedAt |-> Null,
          expiresAt |-> now + PasswordResetTtl])

\* passwordResetToken.findUnique({ where: { tokenHash } })
findToken(tokenHash) == {t \in TokenIds : tokens[t].tokenHash = tokenHash}

\* ------------------------------------------------------- requests in flight
\* a request handler runs from one await to the next; between two awaits the
\* handlers of other requests run.  A call is the position of one handler
\* (`pc`: the await it stands at), its arguments, the row it has read and,
\* once it has returned or thrown, its result.  The actions above the
\* ---- concurrent requests ---- section run a whole handler with no other
\* request in between and leave `calls` alone.
Callers == {1, 2}

Idle == [op |-> "none", pc |-> "idle", args |-> <<>>, read |-> 0, result |-> ""]

NoCalls == [k \in Callers |-> Idle]

\* ------------------------------------------------------------- responses
\* columns of a users row as prisma returns it without a select
UserColumns ==
  {"id", "email", "name", "passwordHash", "mustResetPassword", "isActive",
   "isSuperuser", "deletedAt"}

\* a response body without an `admin` object
NoAdmin == [id |-> 0, columns |-> {}]

\* the body of a response that is not a report
NoBody == <<>>

\* one call of a MailerService send method and whether Resend accepted it
Mail(kind, to, delivered) == [kind |-> kind, to |-> to, delivered |-> delivered]

\* ------------------------------------------------------------------ init
\* database after prisma/seed.ts: the superuser only
Init ==
  /\ calls = NoCalls
  /\ users = <<[email |-> SeedEmail, name |-> SeedName,
                passwordHash |-> Bcrypt(SeedPassword), mustResetPassword |-> FALSE,
                isActive |-> TRUE, isSuperuser |-> TRUE, deletedAt |-> Null]>>
  /\ companies = <<>>
  /\ workspaces = <<>>
  /\ memberships = <<>>
  /\ tokens = <<>>
  /\ now = 0
  /\ ticks = 0
  /\ lastOp = [op |-> "init", result |-> "ok", message |-> "", token |-> 0,
               mails |-> <<>>, admin |-> NoAdmin, body |-> NoBody]

\* lastOp is the last request and its response: the method, the raw token it
\* carried (0: none), the exception class (or ok), which of the method's
\* messages the exception had, the notifications the request handed to the
\* mailer, the `admin` object of the returned body and, for a report, the
\* report itself.
ResponseWith(op, rawToken, result, message, mails, admin) ==
  /\ lastOp' = [op |-> op, result |-> result, message |-> message,
                token |-> rawToken, mails |-> mails, admin |-> admin,
                body |-> NoBody]
  /\ UNCHANGED calls

Response(op, rawToken, result, message) ==
  ResponseWith(op, rawToken, result, message, <<>>, NoAdmin)

\* a request that threw before any write changes no row
Reject(op, error, message) ==
  /\ Response(op, 0, error, message)
  /\ UNCHANGED <<users, companies, workspaces, memberships, tokens, now, ticks>>

Return(op) == Response(op, 0, "ok", "")

\* a read-only request that answered with a report
Report(op, body) ==
  /\ lastOp' = [op |-> op, result |-> "ok", message |-> "", token |-> 0,
                mails |-> <<>>, admin |-> NoAdmin, body |-> body]
  /\ UNCHANGED <<users, companies, workspaces, memberships, tokens, now, ticks,
               calls>>

\* ============================================================ memberships
\* a users row appended by tx.user.create for a provisioned admin
provisionedUser(email, name) ==
  [email |-> email, name |-> name,
   passwordHash |-> PlaceholderHash, mustResetPassword |-> TRUE,
   isActive |-> TRUE, isSuperuser |-> FALSE, deletedAt |-> Null]

\* companies_tax_id_key: unique over every row, soft-deleted or not
taxIdTaken(taxId, excludeId) ==
  \E c \in CompanyIds : c # excludeId /\ companies[c].taxId = taxId

\* users_email_key: unique over every row, soft-deleted or not
emailTaken(email) == \E u \in UserIds : users[u].email = email

createCompany_notifiesExisting(taxId, adminEmail, adminName, committed, mailSent) ==
  LET existingUser == findUserByEmail(adminEmail)
      companyId == Len(companies) + 1
      adminId == Len(users) + 1
      tempName == IF adminName # {} THEN CHOOSE n \in adminName : TRUE
                  ELSE LocalPart(adminEmail)
  IN
  IF findCompanyByTaxId(taxId) # {}
  THEN Reject("createCompany", "Conflict", "taxId")
  ELSE IF \/ ~committed
          \/ taxIdTaken(taxId, 0)
          \/ (existingUser = {} /\ emailTaken(adminEmail))
  THEN Reject("createCompany", "InternalServerError", "rollback")
  ELSE
    /\ Len(companies) < MaxCompanies
    /\ Len(memberships) < MaxMemberships
    /\ companies' = Append(companies,
                           [taxId |-> taxId, legalName |-> LegalNameOf(taxId),
                            isActive |-> TRUE, deletedAt |-> Null])
    /\ IF existingUser # {}
       THEN
            /\ \E u \in existingUser :
                 /\ memberships' =
                      Append(memberships, newMembership(u, "company", companyId, "admin"))
                 /\ Len(tokens) < MaxTokens
                 /\ tokens' = issueFirstAccess(tokens, u)
                 /\ ResponseWith("createCompany", freshRawToken(tokens), "ok", "",
                                 <<Mail("first_access", adminEmail, mailSent)>>,
                                 [id |-> u, columns |-> UserColumns])
            /\ UNCHANGED users
       ELSE
            /\ Len(users) < MaxUsers
            /\ Len(tokens) < MaxTokens
            /\ users' = Append(users, provisionedUser(adminEmail, tempName))
            /\ memberships' =
                 Append(memberships, newMembership(adminId, "company", companyId, "admin"))
            /\ tokens' = issueFirstAccess(tokens, adminId)
            /\ ResponseWith("createCompany", freshRawToken(tokens), "ok", "",
                            <<Mail("first_access", adminEmail, mailSent)>>,
                            [id |-> adminId, columns |-> {"id", "name", "email"}])
    /\ UNCHANGED <<workspaces, now, ticks>>

\* SuperadminService.createCompany(dto, createdById).  `committed` is whether
\* the repository transaction could write (a database failure rolls it back);
\* `mailSent` is whether Resend accepted the first-access email.
createCompany(taxId, adminEmail, adminName, committed, mailSent) ==
  LET existingUser == findUserByEmail(adminEmail)
      companyId == Len(companies) + 1
      adminId == Len(users) + 1
      \* dto.adminName ?? dto.adminEmail.split('@')[0]; an optional field is a
      \* set with at most one element
      tempName == IF adminName # {} THEN CHOOSE n \in adminName : TRUE
                  ELSE LocalPart(adminEmail)
  IN
  IF findCompanyByTaxId(taxId) # {}
  THEN Reject("createCompany", "Conflict", "taxId")
  ELSE IF \/ ~committed
          \/ taxIdTaken(taxId, 0)
          \/ (existingUser = {} /\ emailTaken(adminEmail))
  THEN Reject("createCompany", "InternalServerError", "rollback")
  ELSE
    /\ Len(companies) < MaxCompanies
    /\ Len(memberships) < MaxMemberships
    /\ companies' = Append(companies,
                           [taxId |-> taxId, legalName |-> LegalNameOf(taxId),
                            isActive |-> TRUE, deletedAt |-> Null])
    /\ IF existingUser # {}
       THEN \* repo.createCompanyWithAdmin; admin = existingUser, the whole row
            /\ \E u \in existingUser :
                 /\ memberships' =
                      Append(memberships, newMembership(u, "company", companyId, "admin"))
                 /\ ResponseWith("createCompany", 0, "ok", "", <<>>,
                                 [id |-> u, columns |-> UserColumns])
            /\ UNCHANGED <<users, tokens>>
       ELSE \* repo.createCompanyWithNewAdmin (select id, name, email), then
            \* generateFirstAccessToken and the fire-and-forget email
            /\ Len(users) < MaxUsers
            /\ Len(tokens) < MaxTokens
            /\ users' = Append(users, provisionedUser(adminEmail, tempName))
            /\ memberships' =
                 Append(memberships, newMembership(adminId, "company", companyId, "admin"))
            /\ tokens' = issueFirstAccess(tokens, adminId)
            /\ ResponseWith("createCompany", freshRawToken(tokens), "ok", "",
                            <<Mail("first_access", adminEmail, mailSent)>>,
                            [id |-> adminId, columns |-> {"id", "name", "email"}])
    /\ UNCHANGED <<workspaces, now, ticks>>

createWorkspace_noTransaction(companyId, adminEmail, adminName, committed, mailSent) ==
  LET existingUser == findUserByEmail(adminEmail)
      workspaceId == Len(workspaces) + 1
      adminId == Len(users) + 1
      \* dto.adminEmail.split('@')[0]: dto.adminName is not read
      tempName == LocalPart(adminEmail)
      row == [companyId |-> companyId, isActive |-> TRUE, deletedAt |-> Null]
  IN
  /\ Len(workspaces) < MaxWorkspaces
  /\ workspaces' = Append(workspaces, row)
  /\ IF ~committed \/ (existingUser = {} /\ emailTaken(adminEmail))
     THEN /\ Response("createWorkspace", 0, "InternalServerError", "rollback")
          /\ UNCHANGED <<users, memberships, tokens>>
     ELSE IF existingUser = {}
     THEN /\ Len(users) < MaxUsers
          /\ Len(tokens) < MaxTokens
          /\ Len(memberships) + 2 <= MaxMemberships
          /\ users' = Append(users, provisionedUser(adminEmail, tempName))
          /\ memberships' =
               Append(Append(memberships,
                             newMembership(adminId, "company", companyId, "member")),
                      newMembership(adminId, "workspace", workspaceId, "workspace_admin"))
          /\ tokens' = issueFirstAccess(tokens, adminId)
          /\ ResponseWith("createWorkspace", 0, "ok", "",
                          <<Mail("first_access", adminEmail, mailSent)>>,
                          [id |-> adminId, columns |-> UserColumns \ {"passwordHash"}])
     ELSE /\ Len(memberships) < MaxMemberships
          /\ \E u \in existingUser :
               /\ memberships' =
                    Append(memberships,
                           newMembership(u, "workspace", workspaceId, "workspace_admin"))
               /\ ResponseWith("createWorkspace", 0, "ok", "", <<>>,
                               [id |-> u, columns |-> UserColumns \ {"passwordHash"}])
          /\ UNCHANGED <<users, tokens>>
  /\ UNCHANGED <<companies, now, ticks>>

\* EmpresaService.createWorkspace(companyId, dto, createdById).  `committed`
\* and `mailSent` as in createCompany.
createWorkspace(companyId, adminEmail, adminName, committed, mailSent) ==
  LET existingUser == findUserByEmail(adminEmail)
      workspaceId == Len(workspaces) + 1
      adminId == Len(users) + 1
      \* dto.adminEmail.split('@')[0]: dto.adminName is not read
      tempName == LocalPart(adminEmail)
      row == [companyId |-> companyId, isActive |-> TRUE, deletedAt |-> Null]
  IN
  IF ~committed \/ (existingUser = {} /\ emailTaken(adminEmail))
  THEN \* prisma.$transaction rolled back: no row of it remains
       Reject("createWorkspace", "InternalServerError", "rollback")
  ELSE
  /\ Len(workspaces) < MaxWorkspaces
  /\ workspaces' = Append(workspaces, row)
  /\ IF existingUser = {}
     THEN \* case 1: new email; then generateFirstAccessToken and the
          \* fire-and-forget email
          /\ Len(users) < MaxUsers
          /\ Len(tokens) < MaxTokens
          /\ Len(memberships) + 2 <= MaxMemberships
          /\ users' = Append(users, provisionedUser(adminEmail, tempName))
          /\ memberships' =
               Append(Append(memberships,
                             newMembership(adminId, "company", companyId, "member")),
                      newMembership(adminId, "workspace", workspaceId, "workspace_admin"))
          /\ tokens' = issueFirstAccess(tokens, adminId)
          /\ ResponseWith("createWorkspace", 0, "ok", "",
                          <<Mail("first_access", adminEmail, mailSent)>>,
                          [id |-> adminId, columns |-> UserColumns \ {"passwordHash"}])
     ELSE \* case 2: existing user
          /\ Len(memberships) < MaxMemberships
          /\ \E u \in existingUser :
               /\ memberships' =
                    Append(memberships,
                           newMembership(u, "workspace", workspaceId, "workspace_admin"))
               /\ ResponseWith("createWorkspace", 0, "ok", "", <<>>,
                               [id |-> u, columns |-> UserColumns \ {"passwordHash"}])
          /\ UNCHANGED <<users, tokens>>
  /\ UNCHANGED <<companies, now, ticks>>

\* SuperadminService.updateCompany(id, dto); dto.taxId is optional (a set
\* with at most one element), dto.legalName is not modelled
updateCompany(id, taxId) ==
  IF findCompanyById(id) = {}
  THEN Reject("updateCompany", "NotFound", "company")
  ELSE IF \E t \in taxId :
            t # companies[id].taxId /\ findCompanyByTaxIdExcluding(t, id) # {}
  THEN Reject("updateCompany", "Conflict", "taxId")
  ELSE IF \E t \in taxId : taxIdTaken(t, id)
  THEN \* companies_tax_id_key refuses the update
       Reject("updateCompany", "InternalServerError", "uniqueTaxId")
  ELSE /\ companies' =
            [companies EXCEPT ![id].taxId =
               IF taxId = {} THEN @ ELSE CHOOSE t \in taxId : TRUE]
       /\ Return("updateCompany")
       /\ UNCHANGED <<users, workspaces, memberships, tokens, now, ticks>>

\* SuperadminService.deleteCompany(id, performedById)
deleteCompany(id) ==
  IF findCompanyById(id) = {}
  THEN Reject("deleteCompany", "NotFound", "company")
  ELSE /\ companies' = [companies EXCEPT ![id].deletedAt = now]
       /\ Return("deleteCompany")
       /\ UNCHANGED <<users, workspaces, memberships, tokens, now, ticks>>

\* SuperadminService.deactivateCompany(id, performedById)
deactivateCompany(id) ==
  IF findCompanyById(id) = {}
  THEN Reject("deactivateCompany", "NotFound", "company")
  ELSE /\ companies' = [companies EXCEPT ![id].isActive = FALSE]
       /\ Return("deactivateCompany")
       /\ UNCHANGED <<users, workspaces, memberships, tokens, now, ticks>>

\* EmpresaService.deleteWorkspace(companyId, workspaceId, performedById)
deleteWorkspace(companyId, workspaceId) ==
  IF workspaceId \notin workspaceIdsOf(companyId)
  THEN Reject("deleteWorkspace", "NotFound", "workspace")
  ELSE /\ workspaces' = [workspaces EXCEPT ![workspaceId].deletedAt = now]
       /\ Return("deleteWorkspace")
       /\ UNCHANGED <<users, companies, memberships, tokens, now, ticks>>

promoteToAdmin_noConflictCheck(companyId, userId) ==
  IF activeAt(userId, "company", companyId) = {}
  THEN Reject("promoteToAdmin", "NotFound", "notMember")
  ELSE
    /\ Len(memberships) < MaxMemberships
    /\ memberships' =
         Append(memberships, newMembership(userId, "company", companyId, "admin"))
    /\ Return("promoteToAdmin")
    /\ UNCHANGED <<users, companies, workspaces, tokens, now, ticks>>

\* EmpresaService.promoteToAdmin(companyId, dto, performedById)
promoteToAdmin(companyId, userId) ==
  IF activeAt(userId, "company", companyId) = {}
  THEN Reject("promoteToAdmin", "NotFound", "notMember")
  ELSE IF activeAdminRows(companyId, userId) # {}
  THEN Reject("promoteToAdmin", "Conflict", "alreadyAdmin")
  ELSE
    /\ Len(memberships) < MaxMemberships
    /\ memberships' =
         Append(memberships, newMembership(userId, "company", companyId, "admin"))
    /\ Return("promoteToAdmin")
    /\ UNCHANGED <<users, companies, workspaces, tokens, now, ticks>>

\* EmpresaService.revokeAdmin(companyId, targetUserId, performedById)
revokeAdmin_noLastAdminCheck(companyId, targetUserId, performedById) ==
  IF targetUserId = performedById
  THEN Reject("revokeAdmin", "BadRequest", "self")
  ELSE IF activeAdminRows(companyId, targetUserId) = {}
  THEN Reject("revokeAdmin", "NotFound", "notAdmin")
  ELSE \E adminMembership \in activeAdminRows(companyId, targetUserId) :
         /\ memberships' = softDelete(memberships, {adminMembership})
         /\ Return("revokeAdmin")
         /\ UNCHANGED <<users, companies, workspaces, tokens, now, ticks>>

revokeAdmin(companyId, targetUserId, performedById) ==
  IF targetUserId = performedById
  THEN Reject("revokeAdmin", "BadRequest", "self")
  ELSE IF activeAdminRows(companyId, targetUserId) = {}
  THEN Reject("revokeAdmin", "NotFound", "notAdmin")
  ELSE \E adminMembership \in activeAdminRows(companyId, targetUserId) :
         LET activeAdminsCount == Cardinality(adminsOf(companyId) \ {adminMembership}) IN
         IF activeAdminsCount = 0
         THEN Reject("revokeAdmin", "BadRequest", "onlyAdmin")
         ELSE /\ memberships' = softDelete(memberships, {adminMembership})
              /\ Return("revokeAdmin")
              /\ UNCHANGED <<users, companies, workspaces, tokens, now, ticks>>

\* SuperadminService.deactivateMembership(companyId, membershipId, performedById)
deactivateMembership(companyId, membershipId, performedById) ==
  LET membership ==
        {m \in MembershipIds :
           /\ m = membershipId
           /\ memberships[m].resourceType = "company"
           /\ memberships[m].resourceId = companyId
           /\ memberships[m].deletedAt = Null}
      \* the count filters on scope only: no `role` key in the where clause
      activeAdminsCount ==
        Cardinality({m \in MembershipIds :
                       /\ memberships[m].resourceType = "company"
                       /\ memberships[m].resourceId = companyId
                       /\ memberships[m].deletedAt = Null
                       /\ m # membershipId})
  IN
  IF membership = {}
  THEN Reject("deactivateMembership", "NotFound", "membership")
  ELSE IF activeAdminsCount = 0
  THEN Reject("deactivateMembership", "BadRequest", "onlyAdmin")
  ELSE /\ memberships' = softDelete(memberships, {membershipId})
       /\ Return("deactivateMembership")
       /\ UNCHANGED <<users, companies, workspaces, tokens, now, ticks>>

\* EmpresaService.updateMember(companyId, targetUserId, dto, performedById);
\* dto.isActive is optional: a set with at most one element
updateMember(companyId, targetUserId, isActive, performedById) ==
  IF targetUserId = performedById
  THEN Reject("updateMember", "BadRequest", "self")
  ELSE IF activeAdminRows(companyId, targetUserId) # {}
  THEN Reject("updateMember", "Forbidden", "companyAdmin")
  ELSE IF anyActiveMembership(companyId, targetUserId) = {}
  THEN Reject("updateMember", "NotFound", "notMember")
  ELSE /\ users' = [users EXCEPT ![targetUserId].isActive =
                      IF isActive # {} THEN CHOOSE v \in isActive : TRUE ELSE @]
       /\ Return("updateMember")
       /\ UNCHANGED <<companies, workspaces, memberships, tokens, now, ticks>>

\* EmpresaService.removeMember(companyId, targetUserId, performedById)
removeMember_noAdminGuard(companyId, targetUserId, performedById) ==
  LET matched == anyActiveMembership(companyId, targetUserId)
  IN
  IF targetUserId = performedById
  THEN Reject("removeMember", "BadRequest", "self")
  ELSE IF matched = {}
  THEN Reject("removeMember", "NotFound", "notMember")
  ELSE /\ memberships' = softDelete(memberships, matched)
       /\ Return("removeMember")
       /\ UNCHANGED <<users, companies, workspaces, tokens, now, ticks>>

removeMember(companyId, targetUserId, performedById) ==
  LET matched == anyActiveMembership(companyId, targetUserId)
  IN
  IF targetUserId = performedById
  THEN Reject("removeMember", "BadRequest", "self")
  ELSE IF activeAdminRows(companyId, targetUserId) # {}
  THEN Reject("removeMember", "Forbidden", "companyAdmin")
  ELSE IF matched = {}
  THEN Reject("removeMember", "NotFound", "notMember")
  ELSE /\ memberships' = softDelete(memberships, matched)
       /\ Return("removeMember")
       /\ UNCHANGED <<users, companies, workspaces, tokens, now, ticks>>

ensureCompanyMembership_never(companyId, userId) ==
  memberships

\* promoteToWorkspaceAdmin, "Garantir membership na empresa como member (se
\* não existir)": the membership rows once the user has a company-scope row
ensureCompanyMembership(companyId, userId) ==
  IF activeAt(userId, "company", companyId) = {}
  THEN Append(memberships, newMembership(userId, "company", companyId, "member"))
  ELSE memberships

promoteToWorkspaceAdmin_noExistingCheck(companyId, workspaceId, userId, performedById) ==
  LET companyMembership == activeAt(userId, "company", companyId)
      withCompanyRow ==
        IF companyMembership = {}
        THEN Append(memberships, newMembership(userId, "company", companyId, "member"))
        ELSE memberships
  IN
  IF activeAdminRows(companyId, userId) # {}
  THEN Reject("promoteToWorkspaceAdmin", "Forbidden", "companyAdmin")
  ELSE IF workspaceId \notin workspaceIdsOf(companyId)
  THEN Reject("promoteToWorkspaceAdmin", "NotFound", "workspace")
  ELSE IF anyActiveMembership(companyId, userId) = {}
  THEN Reject("promoteToWorkspaceAdmin", "NotFound", "notMember")
  ELSE /\ Len(withCompanyRow) < MaxMemberships
       /\ memberships' =
            Append(withCompanyRow,
                   newMembership(userId, "workspace", workspaceId, "workspace_admin"))
       /\ Return("promoteToWorkspaceAdmin")
       /\ UNCHANGED <<users, companies, workspaces, tokens, now, ticks>>

\* EmpresaService.promoteToWorkspaceAdmin(companyId, workspaceId, userId, performedById)
promoteToWorkspaceAdmin(companyId, workspaceId, userId, performedById) ==
  LET existing == activeAt(userId, "workspace", workspaceId)
      withCompanyRow == ensureCompanyMembership(companyId, userId)
  IN
  IF activeAdminRows(companyId, userId) # {}
  THEN Reject("promoteToWorkspaceAdmin", "Forbidden", "companyAdmin")
  ELSE IF workspaceId \notin workspaceIdsOf(companyId)
  THEN Reject("promoteToWorkspaceAdmin", "NotFound", "workspace")
  ELSE IF anyActiveMembership(companyId, userId) = {}
  THEN Reject("promoteToWorkspaceAdmin", "NotFound", "notMember")
  ELSE IF existing # {}
  THEN \E e \in existing :
         IF memberships[e].role = "workspace_admin"
         THEN Reject("promoteToWorkspaceAdmin", "Conflict", "alreadyWorkspaceAdmin")
         ELSE /\ memberships' = [memberships EXCEPT ![e].role = "workspace_admin"]
              /\ Return("promoteToWorkspaceAdmin")
              /\ UNCHANGED <<users, companies, workspaces, tokens, now, ticks>>
  ELSE /\ Len(withCompanyRow) < MaxMemberships
       /\ memberships' =
            Append(withCompanyRow,
                   newMembership(userId, "workspace", workspaceId, "workspace_admin"))
       /\ Return("promoteToWorkspaceAdmin")
       /\ UNCHANGED <<users, companies, workspaces, tokens, now, ticks>>

\* EmpresaService.revokeWorkspaceAdmin(companyId, workspaceId, targetUserId, performedById)
revokeWorkspaceAdmin(companyId, workspaceId, targetUserId, performedById) ==
  LET membership ==
        {m \in activeAt(targetUserId, "workspace", workspaceId) :
           memberships[m].role = "workspace_admin"}
  IN
  IF activeAdminRows(companyId, targetUserId) # {}
  THEN Reject("revokeWorkspaceAdmin", "Forbidden", "companyAdmin")
  ELSE IF workspaceId \notin workspaceIdsOf(companyId)
  THEN Reject("revokeWorkspaceAdmin", "NotFound", "workspace")
  ELSE IF membership = {}
  THEN Reject("revokeWorkspaceAdmin", "NotFound", "notWorkspaceAdmin")
  ELSE \E m \in membership :
         /\ memberships' = softDelete(memberships, {m})
         /\ Return("revokeWorkspaceAdmin")
         /\ UNCHANGED <<users, companies, workspaces, tokens, now, ticks>>

forgotPassword_inactiveToo(email, mailSent) ==
  LET user == findUserByEmail(email) IN
  IF user = {}
  THEN /\ Response("forgotPassword", 0, "ok", "ignored")
       /\ UNCHANGED <<users, companies, workspaces, memberships, tokens, now, ticks>>
  ELSE /\ Len(tokens) < MaxTokens
       /\ \E u \in user : tokens' = issuePasswordReset(tokens, u)
       /\ IF mailSent
          THEN ResponseWith("forgotPassword", freshRawToken(tokens), "ok", "",
                            <<Mail("password_reset", email, TRUE)>>, NoAdmin)
          ELSE ResponseWith("forgotPassword", freshRawToken(tokens),
                            "InternalServerError", "mail",
                            <<Mail("password_reset", email, FALSE)>>, NoAdmin)
       /\ UNCHANGED <<users, companies, workspaces, memberships, now, ticks>>

\* ============================================================ credentials
\* AuthService.forgotPassword(email); the mail is awaited after the rows are
\* written, and MailerService throws InternalServerError when Resend fails
forgotPassword(email, mailSent) ==
  LET user == {u \in findUserByEmail(email) : users[u].isActive} IN
  IF user = {}
  THEN /\ Response("forgotPassword", 0, "ok", "ignored")
       /\ UNCHANGED <<users, companies, workspaces, memberships, tokens, now, ticks>>
  ELSE /\ Len(tokens) < MaxTokens
       /\ \E u \in user : tokens' = issuePasswordReset(tokens, u)
       /\ IF mailSent
          THEN ResponseWith("forgotPassword", freshRawToken(tokens), "ok", "",
                            <<Mail("password_reset", email, TRUE)>>, NoAdmin)
          ELSE ResponseWith("forgotPassword", freshRawToken(tokens),
                            "InternalServerError", "mail",
                            <<Mail("password_reset", email, FALSE)>>, NoAdmin)
       /\ UNCHANGED <<users, companies, workspaces, memberships, now, ticks>>

resetTokenInvalid_ignoresUsed(record) ==
  \/ record = {}
  \/ \E t \in record : tokens[t].expiresAt < now

\* the guard of AuthService.confirmResetPassword: no check of record.type
resetTokenInvalid(record) ==
  \/ record = {}
  \/ \E t \in record : tokens[t].usedAt # Null \/ tokens[t].expiresAt < now

\* the guard of consumeFirstAccessToken / validateFirstAccessToken
firstAccessTokenInvalid(record) ==
  \/ record = {}
  \/ \E t \in record :
       \/ tokens[t].type # "first_access"
       \/ tokens[t].usedAt # Null
       \/ tokens[t].expiresAt < now

resetPasswordWithToken_noTransaction(t, data, committed) ==
  /\ users' = [users EXCEPT ![tokens[t].userId] =
                 [f \in DOMAIN @ |-> IF f \in DOMAIN data THEN data[f] ELSE @[f]]]
  /\ tokens' = IF committed THEN [tokens EXCEPT ![t].usedAt = now] ELSE tokens

\* prisma.$transaction([user.update, passwordResetToken.update]): both writes
\* or, when a write fails, neither
resetPasswordWithToken(t, data, committed) ==
  IF committed
  THEN /\ users' = [users EXCEPT ![tokens[t].userId] =
                      [f \in DOMAIN @ |-> IF f \in DOMAIN data THEN data[f] ELSE @[f]]]
       /\ tokens' = [tokens EXCEPT ![t].usedAt = now]
  ELSE UNCHANGED <<users, tokens>>

\* AuthService.confirmResetPassword(rawToken, dto)
confirmResetPassword(rawToken, newPassword, confirmPassword, committed) ==
  LET record == findToken(Sha256(rawToken)) IN
  IF newPassword # confirmPassword
  THEN /\ Response("confirmResetPassword", rawToken, "BadRequest", "mismatch")
       /\ UNCHANGED <<users, companies, workspaces, memberships, tokens, now, ticks>>
  ELSE IF resetTokenInvalid(record)
  THEN /\ Response("confirmResetPassword", rawToken, "BadRequest", "invalidToken")
       /\ UNCHANGED <<users, companies, workspaces, memberships, tokens, now, ticks>>
  ELSE /\ \E t \in record :
            resetPasswordWithToken(
              t, [passwordHash |-> Bcrypt(newPassword), mustResetPassword |-> FALSE],
              committed)
       /\ IF committed
          THEN Response("confirmResetPassword", rawToken, "ok", "")
          ELSE Response("confirmResetPassword", rawToken, "InternalServerError", "rollback")
       /\ UNCHANGED <<companies, workspaces, memberships, now, ticks>>

\* AuthService.consumeFirstAccessToken(rawToken, dto)
consumeFirstAccessToken(rawToken, newPassword, confirmPassword, name, committed) ==
  LET record == findToken(Sha256(rawToken)) IN
  IF newPassword # confirmPassword
  THEN /\ Response("consumeFirstAccessToken", rawToken, "BadRequest", "mismatch")
       /\ UNCHANGED <<users, companies, workspaces, memberships, tokens, now, ticks>>
  ELSE IF firstAccessTokenInvalid(record)
  THEN /\ Response("consumeFirstAccessToken", rawToken, "BadRequest", "invalidToken")
       /\ UNCHANGED <<users, companies, workspaces, memberships, tokens, now, ticks>>
  ELSE /\ \E t \in record :
            resetPasswordWithToken(
              t, [passwordHash |-> Bcrypt(newPassword), mustResetPassword |-> FALSE,
                  name |-> Trim(name)],
              committed)
       /\ IF committed
          THEN Response("consumeFirstAccessToken", rawToken, "ok", "")
          ELSE Response("consumeFirstAccessToken", rawToken, "InternalServerError", "rollback")
       /\ UNCHANGED <<companies, workspaces, memberships, now, ticks>>

\* AuthService.generateFirstAccessToken(userId)
generateFirstAccessToken(userId) ==
  /\ Len(tokens) < MaxTokens
  /\ tokens' = issueFirstAccess(tokens, userId)
  /\ Response("generateFirstAccessToken", freshRawToken(tokens), "ok", "")
  /\ UNCHANGED <<users, companies, workspaces, memberships, now, ticks>>

getOrRegenerateFirstAccessToken_always(userId) ==
  IF findUserById(userId) = {}
  THEN Reject("getOrRegenerateFirstAccessToken", "NotFound", "user")
  ELSE /\ Len(tokens) < MaxTokens
       /\ tokens' = issueFirstAccess(tokens, userId)
       /\ Response("getOrRegenerateFirstAccessToken", freshRawToken(tokens), "ok", "")
       /\ UNCHANGED <<users, companies, workspaces, memberships, now, ticks>>

\* AuthService.getOrRegenerateFirstAccessToken(userId)
getOrRegenerateFirstAccessToken(userId) ==
  IF findUserById(userId) = {}
  THEN Reject("getOrRegenerateFirstAccessToken", "NotFound", "user")
  ELSE IF ~users[userId].mustResetPassword
  THEN /\ Response("getOrRegenerateFirstAccessToken", 0, "ok", "null")
       /\ UNCHANGED <<users, companies, workspaces, memberships, tokens, now, ticks>>
  ELSE /\ Len(tokens) < MaxTokens
       /\ tokens' = issueFirstAccess(tokens, userId)
       /\ Response("getOrRegenerateFirstAccessToken", freshRawToken(tokens), "ok", "")
       /\ UNCHANGED <<users, companies, workspaces, memberships, now, ticks>>

\* AuthService.invalidateUserCredentials(userId, performedById)
invalidateUserCredentials(userId) ==
  IF findUserById(userId) = {}
  THEN Reject("invalidateUserCredentials", "NotFound", "user")
  ELSE /\ Len(tokens) < MaxTokens
       /\ users' = [users EXCEPT ![userId].mustResetPassword = TRUE]
       /\ tokens' = issueFirstAccess(tokens, userId)
       /\ Response("invalidateUserCredentials", freshRawToken(tokens), "ok", "")
       /\ UNCHANGED <<companies, workspaces, memberships, now, ticks>>

\* time passes between requests: just past the lifetime of a password-reset
\* token, or just past the lifetime of a first-access token
Tick(d) ==
  /\ ticks < MaxTicks
  /\ now' = now + d
  /\ ticks' = ticks + 1
  /\ UNCHANGED <<users, companies, workspaces, memberships, tokens, lastOp, calls>>

\* ================================================================ reports
\* roleRank[m.role] ?? 0
RoleRank(role) ==
  CASE role = "admin" -> 3
    [] role = "workspace_admin" -> 2
    [] role = "member" -> 1
    [] OTHER -> 0

\* the orders in which a findMany without orderBy may return the rows S
ReadOrders(S) ==
  {f \in [1..Cardinality(S) -> S] :
     \A i \in DOMAIN f, j \in DOMAIN f : i # j => f[i] # f[j]}

\* listMembers, step 2: the active rows at the company or at one of its
\* non-deleted workspaces
companyMemberships(companyId) ==
  {m \in MembershipIds :
     /\ memberships[m].deletedAt = Null
     /\ \/ /\ memberships[m].resourceType = "company"
           /\ memberships[m].resourceId = companyId
        \/ /\ memberships[m].resourceType = "workspace"
           /\ memberships[m].resourceId \in workspaceIdsOf(companyId)}

\* listMembers, step 3: consolidatedMap after the loop over the rows in the
\* order they were read
RECURSIVE consolidate(_)
consolidate(read) ==
  IF read = <<>>
  THEN [u \in {} |-> 0]
  ELSE LET map == consolidate(SubSeq(read, 1, Len(read) - 1))
           id == read[Len(read)]
           m == memberships[id]
           u == m.userId
       IN
       IF u \notin DOMAIN map
       THEN map @@ (u :> [id |-> id, role |-> m.role, createdAt |-> m.createdAt])
       ELSE IF RoleRank(m.role) > RoleRank(map[u].role)
       THEN [map EXCEPT ![u] = [id |-> id, role |-> m.role, createdAt |-> @.createdAt]]
       ELSE IF m.createdAt < map[u].createdAt
       THEN [map EXCEPT ![u].createdAt = m.createdAt]
       ELSE map

\* EmpresaService.listMembers(companyId, query) with an empty query; `read`
\* is the order in which membership.findMany returned the rows.  The
\* workspaceRoles list, the user columns and the paging are not modelled.
listMembers(companyId, read) ==
  LET map == consolidate(read)
      found == {u \in DOMAIN map : users[u].deletedAt = Null}
  IN
  /\ read \in ReadOrders(companyMemberships(companyId))
  /\ Report("listMembers",
            [companyId |-> companyId,
             data |-> {[userId |-> u, membershipId |-> map[u].id,
                        role |-> map[u].role, memberSince |-> map[u].createdAt] :
                       u \in found}])

\* the positions of the rows of one scope in the rows read
readAt(read, resourceType, resourceId) ==
  {i \in DOMAIN read :
     /\ memberships[read[i]].resourceType = resourceType
     /\ memberships[read[i]].resourceId = resourceId}

\* memberships.find((m) => ...)?.role ?? null: the role of the first row
\* read of that scope
firstRole(read, resourceType, resourceId) ==
  LET idx == readAt(read, resourceType, resourceId) IN
  IF idx = {} THEN "null"
  ELSE memberships[read[CHOOSE i \in idx : \A j \in idx : i <= j]].role

\* new Map(rows.map((m) => [m.resourceId, m])).get(id)?.role ?? null: the
\* role of the last row read of that scope
lastRole(read, resourceType, resourceId) ==
  LET idx == readAt(read, resourceType, resourceId) IN
  IF idx = {} THEN "null"
  ELSE memberships[read[CHOOSE i \in idx : \A j \in idx : i >= j]].role

\* EmpresaService.getMemberRoles(companyId, targetUserId); `read` is the
\* order in which membership.findMany returned the user's rows.  The names
\* and the membership ids of the answer are not modelled.
getMemberRoles(companyId, targetUserId, read) ==
  IF findUserById(targetUserId) = {}
  THEN Reject("getMemberRoles", "NotFound", "user")
  ELSE /\ read \in ReadOrders(anyActiveMembership(companyId, targetUserId))
       /\ Report("getMemberRoles",
                 [companyId |-> companyId,
                  userId |-> targetUserId,
                  companyRole |-> firstRole(read, "company", companyId),
                  workspaceRoles |->
                    [w \in workspaceIdsOf(companyId) |-> lastRole(read, "workspace", w)]])

\* the user's active company-scope rows (getMyCompanies, step 1)
directMemberships(userId) ==
  {m \in MembershipIds :
     /\ memberships[m].userId = userId
     /\ memberships[m].resourceType = "company"
     /\ memberships[m].deletedAt = Null}

\* getMyCompanies, steps 1 and 2: allCompanyIds
allCompanyIds(userId) ==
  {memberships[m].resourceId : m \in directMemberships(userId)}
    \cup {workspaces[w].companyId :
            w \in {x \in WorkspaceIds :
                     /\ workspaces[x].deletedAt = Null
                     /\ activeAt(userId, "workspace", x) # {}}}

\* one entry of the answer of getMyCompanies: the role of the first direct
\* row read, workspace_admin without one
companyEntry(c, read) ==
  LET direct == firstRole(read, "company", c) IN
  [companyId |-> c, legalName |-> companies[c].legalName,
   role |-> IF direct = "null" THEN "workspace_admin" ELSE direct]

\* the comparator of the final sort: a is not after b
notAfter(a, b) ==
  \/ RoleRank(a.role) > RoleRank(b.role)
  \/ RoleRank(a.role) = RoleRank(b.role) /\ a.legalName <= b.legalName

\* MeService.getMyCompanies(userId); `read` is the order in which
\* membership.findMany returned the user's company-scope rows
getMyCompanies(userId, read) ==
  LET found == {c \in allCompanyIds(userId) \cap CompanyIds :
                  companies[c].deletedAt = Null /\ companies[c].isActive}
      sorted == {s \in ReadOrders(found) :
                   \A i \in DOMAIN s, j \in DOMAIN s :
                     i < j => notAfter(companyEntry(s[i], read), companyEntry(s[j], read))}
  IN
  /\ read \in ReadOrders(directMemberships(userId))
  /\ \E s \in sorted :
       Report("getMyCompanies",
              [userId |-> userId,
               data |-> [i \in DOMAIN s |-> companyEntry(s[i], read)]])

\* ================================================================= guards
canActivate_noCompanyCheck(userId, companyId) ==
  /\ lastOp' = [op |-> "canActivate",
                result |-> IF activeAdminRows(companyId, userId) # {}
                           THEN "ok" ELSE "Forbidden",
                message |-> "", token |-> 0, mails |-> <<>>, admin |-> NoAdmin,
                body |-> [userId |-> userId, companyId |-> companyId]]
  /\ UNCHANGED <<users, companies, workspaces, memberships, tokens, now, ticks,
                 calls>>

\* CompanyAdminGuard.canActivate for request.user.id and params.companyId: the
\* two rows are read for this request, nothing of an earlier request is kept
canActivate(userId, companyId) ==
  LET membership == activeAdminRows(companyId, userId)
      company == {c \in CompanyIds : /\ c = companyId
                                     /\ companies[c].deletedAt = Null
                                     /\ companies[c].isActive}
  IN
  /\ lastOp' = [op |-> "canActivate",
                result |-> IF membership = {} \/ company = {}
                           THEN "Forbidden" ELSE "ok",
                message |-> "", token |-> 0, mails |-> <<>>, admin |-> NoAdmin,
                body |-> [userId |-> userId, companyId |-> companyId]]
  /\ UNCHANGED <<users, companies, workspaces, memberships, tokens, now, ticks,
                 calls>>

\* ==================================================== concurrent requests
\* the handler of caller k moves to the await `pc`, holding the row it read
Await(k, op, args, pc, read) ==
  /\ calls' = [calls EXCEPT ![k] = [op |-> op, pc |-> pc, args |-> args,
                                    read |-> read, result |-> ""]]
  /\ UNCHANGED lastOp

\* the handler of caller k returns ("ok") or throws
Finish(k, op, args, read, result) ==
  /\ calls' = [calls EXCEPT ![k] = [op |-> op, pc |-> "done", args |-> args,
                                    read |-> read, result |-> result]]
  /\ lastOp' = [op |-> op, result |-> result, message |-> "", token |-> 0,
                mails |-> <<>>, admin |-> NoAdmin, body |-> NoBody]

\* caller k has no request in flight
Free(k) == calls[k].pc \in {"idle", "done"}

At(k, op, pc) == calls[k].op = op /\ calls[k].pc = pc

\* EmpresaService.revokeAdmin up to its first await: the self check and
\* membership.findFirst
revokeAdmin_findFirst(k, companyId, targetUserId, performedById) ==
  LET args == <<companyId, targetUserId, performedById>> IN
  /\ Free(k)
  /\ IF targetUserId = performedById
     THEN Finish(k, "revokeAdmin", args, 0, "BadRequest")
     ELSE IF activeAdminRows(companyId, targetUserId) = {}
     THEN Finish(k, "revokeAdmin", args, 0, "NotFound")
     ELSE \E adminMembership \in activeAdminRows(companyId, targetUserId) :
            Await(k, "revokeAdmin", args, "count", adminMembership)
  /\ UNCHANGED <<users, companies, workspaces, memberships, tokens, now, ticks>>

\* membership.count of the other active admin rows, and the decision on it
revokeAdmin_count(k) ==
  LET companyId == calls[k].args[1]
      adminMembership == calls[k].read
      activeAdminsCount == Cardinality(adminsOf(companyId) \ {adminMembership})
  IN
  /\ At(k, "revokeAdmin", "count")
  /\ IF activeAdminsCount = 0
     THEN Finish(k, "revokeAdmin", calls[k].args, adminMembership, "BadRequest")
     ELSE Await(k, "revokeAdmin", calls[k].args, "update", adminMembership)
  /\ UNCHANGED <<users, companies, workspaces, memberships, tokens, now, ticks>>

revokeAdmin_update_recount(k) ==
  LET companyId == calls[k].args[1]
      adminMembership == calls[k].read
  IN
  /\ At(k, "revokeAdmin", "update")
  /\ IF adminsOf(companyId) \ {adminMembership} = {}
     THEN /\ Finish(k, "revokeAdmin", calls[k].args, adminMembership, "BadRequest")
          /\ UNCHANGED memberships
     ELSE /\ memberships' = softDelete(memberships, {adminMembership})
          /\ Finish(k, "revokeAdmin", calls[k].args, adminMembership, "ok")
  /\ UNCHANGED <<users, companies, workspaces, tokens, now, ticks>>

\* membership.update({ where: { id: adminMembership.id }, ... }): the row is
\* named by its id alone
revokeAdmin_update(k) ==
  LET adminMembership == calls[k].read IN
  /\ At(k, "revokeAdmin", "update")
  /\ memberships' = softDelete(memberships, {adminMembership})
  /\ Finish(k, "revokeAdmin", calls[k].args, adminMembership, "ok")
  /\ UNCHANGED <<users, companies, workspaces, tokens, now, ticks>>

\* passwordResetToken.create({ data: { userId, tokenHash, type, expiresAt } })
createToken(rows, userId, type, ttl) ==
  Append(rows,
         [userId |-> userId, tokenHash |-> Sha256(freshRawToken(rows)),
          type |-> type, usedAt |-> Null, expiresAt |-> now + ttl])

\* AuthService.generateFirstAccessToken up to its first await completed:
\* passwordResetToken.updateMany, a statement of its own
generateFirstAccessToken_updateMany(k, userId) ==
  /\ Free(k)
  /\ tokens' = invalidateTokensByType(tokens, userId, "first_access")
  /\ Await(k, "generateFirstAccessToken", <<userId>>, "create", 0)
  /\ UNCHANGED <<users, companies, workspaces, memberships, now, ticks>>

\* passwordResetToken.create, a second statement, and the return
generateFirstAccessToken_create(k) ==
  /\ At(k, "generateFirstAccessToken", "create")
  /\ Len(tokens) < MaxTokens
  /\ tokens' = createToken(tokens, calls[k].args[1], "first_access", FirstAccessTtl)
  /\ Finish(k, "generateFirstAccessToken", calls[k].args, freshRawToken(tokens), "ok")
  /\ UNCHANGED <<users, companies, workspaces, memberships, now, ticks>>

\* AuthService.forgotPassword up to its first await completed: user.findFirst
forgotPassword_findFirst(k, email) ==
  LET user == {u \in findUserByEmail(email) : users[u].isActive} IN
  /\ Free(k)
  /\ IF user = {}
     THEN Finish(k, "forgotPassword", <<email>>, 0, "ok")
     ELSE \E u \in user : Await(k, "forgotPassword", <<email>>, "updateMany", u)
  /\ UNCHANGED <<users, companies, workspaces, memberships, tokens, now, ticks>>

\* passwordResetToken.updateMany of the user found
forgotPassword_updateMany(k) ==
  /\ At(k, "forgotPassword", "updateMany")
  /\ tokens' = invalidateTokensByType(tokens, calls[k].read, "password_reset")
  /\ Await(k, "forgotPassword", calls[k].args, "create", calls[k].read)
  /\ UNCHANGED <<users, companies, workspaces, memberships, now, ticks>>

\* passwordResetToken.create, then the awaited mail, which writes no row
forgotPassword_create(k, mailSent) ==
  /\ At(k, "forgotPassword", "create")
  /\ Len(tokens) < MaxTokens
  /\ tokens' = createToken(tokens, calls[k].read, "password_reset", PasswordResetTtl)
  /\ Finish(k, "forgotPassword", calls[k].args, calls[k].read,
            IF mailSent THEN "ok" ELSE "InternalServerError")
  /\ UNCHANGED <<users, companies, workspaces, memberships, now, ticks>>

\* AuthService.consumeFirstAccessToken up to the transaction: the password
\* comparison, passwordResetToken.findUnique and the checks on the record read
consumeFirstAccessToken_findUnique(k, rawToken, newPassword, confirmPassword, name) ==
  LET record == findToken(Sha256(rawToken))
      args == <<rawToken, newPassword, name>>
  IN
  /\ Free(k)
  /\ IF newPassword # confirmPassword \/ firstAccessTokenInvalid(record)
     THEN Finish(k, "consumeFirstAccessToken", args, 0, "BadRequest")
     ELSE \E t \in record : Await(k, "consumeFirstAccessToken", args, "transaction", t)
  /\ UNCHANGED <<users, companies, workspaces, memberships, tokens, now, ticks>>

\* prisma.$transaction: user.update by record.userId, passwordResetToken.update
\* by record.id; neither reads usedAt again
consumeFirstAccessToken_transaction(k, committed) ==
  LET t == calls[k].read IN
  /\ At(k, "consumeFirstAccessToken", "transaction")
  /\ resetPasswordWithToken(
       t, [passwordHash |-> Bcrypt(calls[k].args[2]), mustResetPassword |-> FALSE,
           name |-> Trim(calls[k].args[3])],
       committed)
  /\ Finish(k, "consumeFirstAccessToken", calls[k].args, t,
            IF committed THEN "ok" ELSE "InternalServerError")
  /\ UNCHANGED <<companies, workspaces, memberships, now, ticks>>

\* AuthService.confirmResetPassword up to the transaction
confirmResetPassword_findUnique(k, rawToken, newPassword, confirmPassword) ==
  LET record == findToken(Sha256(rawToken))
      args == <<rawToken, newPassword>>
  IN
  /\ Free(k)
  /\ IF newPassword # confirmPassword \/ resetTokenInvalid(record)
     THEN Finish(k, "confirmResetPassword", args, 0, "BadRequest")
     ELSE \E t \in record : Await(k, "confirmResetPassword", args, "transaction", t)
  /\ UNCHANGED <<users, companies, workspaces, memberships, tokens, now, ticks>>

\* prisma.$transaction([user.update, passwordResetToken.update])
confirmResetPassword_transaction(k, committed) ==
  LET t == calls[k].read IN
  /\ At(k, "confirmResetPassword", "transaction")
  /\ resetPasswordWithToken(
       t, [passwordHash |-> Bcrypt(calls[k].args[2]), mustResetPassword |-> FALSE],
       committed)
  /\ Finish(k, "confirmResetPassword", calls[k].args, t,
            IF committed THEN "ok" ELSE "InternalServerError")
  /\ UNCHANGED <<companies, workspaces, memberships, now, ticks>>

\* --------------------------------------------------- membership lifecycle
\* the membership table of a lifecycle run stays within its bound
LifecycleRows == Len(memberships) <= MaxLifecycleMemberships

Next ==
  \/ \E t \in TaxIds, e \in Emails, n \in {{}} :
       createCompany(t, e, n, TRUE, TRUE) /\ LifecycleRows'
  \/ \E c \in CompanyIds, e \in Emails :
       createWorkspace(c, e, {}, TRUE, TRUE) /\ LifecycleRows'
  \/ \E c \in CompanyIds, u \in UserIds : promoteToAdmin(c, u) /\ LifecycleRows'
  \/ \E c \in CompanyIds, u \in UserIds, a \in UserIds : revokeAdmin(c, u, a)
  \/ \E c \in CompanyIds, m \in MembershipIds, a \in UserIds :
       deactivateMembership(c, m, a)
  \/ \E c \in CompanyIds, u \in UserIds, a \in UserIds : removeMember(c, u, a)
  \/ \E c \in CompanyIds, w \in WorkspaceIds, u \in UserIds, a \in UserIds :
       promoteToWorkspaceAdmin(c, w, u, a) /\ LifecycleRows'
  \/ \E c \in CompanyIds, w \in WorkspaceIds, u \in UserIds, a \in UserIds :
       revokeWorkspaceAdmin(c, w, u, a)

Spec == Init /\ [][Next]_vars

\* ------------------------------------------------------- member operations
\* the database after the seed, createCompany(1, a@x) and
\* createWorkspace(1, r@t): company 1 with its provisioned admin (user 2) and
\* workspace 1 whose admin is the existing superuser (user 1), who has no
\* company-scope row
InitMembers ==
  /\ calls = NoCalls
  /\ users = <<[email |-> SeedEmail, name |-> SeedName,
                passwordHash |-> Bcrypt(SeedPassword), mustResetPassword |-> FALSE,
                isActive |-> TRUE, isSuperuser |-> TRUE, deletedAt |-> Null],
               provisionedUser(<<"a", "@", "x">>, <<"a">>)>>
  /\ companies = <<[taxId |-> 1, legalName |-> LegalNameOf(1),
                    isActive |-> TRUE, deletedAt |-> Null]>>
  /\ workspaces = <<[companyId |-> 1, isActive |-> TRUE, deletedAt |-> Null]>>
  /\ memberships = <<[userId |-> 2, resourceType |-> "company", resourceId |-> 1,
                      role |-> "admin", createdAt |-> 0, deletedAt |-> Null],
                     [userId |-> 1, resourceType |-> "workspace", resourceId |-> 1,
                      role |-> "workspace_admin", createdAt |-> 0, deletedAt |-> Null]>>
  /\ tokens = <<[userId |-> 2, tokenHash |-> Sha256(1), type |-> "first_access",
                 usedAt |-> Null, expiresAt |-> FirstAccessTtl]>>
  /\ now = 0
  /\ ticks = 0
  /\ lastOp = [op |-> "createWorkspace", result |-> "ok", message |-> "", token |-> 0,
               mails |-> <<>>,
               admin |-> [id |-> 1, columns |-> UserColumns \ {"passwordHash"}],
               body |-> NoBody]

NextMembers ==
  \/ \E c \in CompanyIds, e \in Emails : createWorkspace(c, e, {}, TRUE, TRUE)
  \/ \E c \in CompanyIds, u \in UserIds : promoteToAdmin(c, u)
  \/ \E c \in CompanyIds, u \in UserIds, a \in UserIds : revokeAdmin(c, u, a)
  \/ \E c \in CompanyIds, m \in MembershipIds, a \in UserIds :
       deactivateMembership(c, m, a)
  \/ \E c \in CompanyIds, u \in UserIds, v \in {{TRUE}, {FALSE}}, a \in UserIds :
       updateMember(c, u, v, a)
  \/ \E c \in CompanyIds, u \in UserIds, a \in UserIds : removeMember(c, u, a)
  \/ \E c \in CompanyIds, w \in WorkspaceIds, u \in UserIds, a \in UserIds :
       promoteToWorkspaceAdmin(c, w, u, a)
  \/ \E c \in CompanyIds, w \in WorkspaceIds, u \in UserIds, a \in UserIds :
       revokeWorkspaceAdmin(c, w, u, a)

SpecMembers == InitMembers /\ [][NextMembers]_vars

\* ------------------------------------------------------- provisioning
\* Companies and workspaces are provisioned from the seeded database, with a
\* database that may fail the transaction and a mail provider that may refuse
\* the email; users ask for password resets.
NextProvision ==
  \/ \E t \in TaxIds, e \in Emails, committed \in BOOLEAN, mailSent \in BOOLEAN :
       createCompany(t, e, {}, committed, mailSent)
  \/ \E c \in CompanyIds, e \in Emails, committed \in BOOLEAN, mailSent \in BOOLEAN :
       createWorkspace(c, e, {}, committed, mailSent)
  \/ \E e \in Emails, mailSent \in BOOLEAN : forgotPassword(e, mailSent)

SpecProvision == Init /\ [][NextProvision]_vars

\* ------------------------------------------------------ reset requests
\* Company 1 gets workspaces and members, members are inactivated and
\* reactivated by its admin, and users, known or not, ask for password resets.
NextReset ==
  \/ \E c \in CompanyIds, e \in Emails : createWorkspace(c, e, {}, TRUE, TRUE)
  \/ \E c \in CompanyIds, u \in UserIds, v \in {{TRUE}, {FALSE}}, a \in UserIds :
       updateMember(c, u, v, a)
  \/ \E e \in Emails, sent \in BOOLEAN : forgotPassword(e, sent)

SpecReset == InitMembers /\ [][NextReset]_vars

\* ------------------------------------------------------------ reports
\* Company 1 gets workspaces, admins and workspace admins over time,
\* workspaces are deleted, and its members and their roles are reported.
NextReports ==
  \/ \E c \in CompanyIds, w \in WorkspaceIds : deleteWorkspace(c, w)
  \/ \E c \in CompanyIds, e \in Emails : createWorkspace(c, e, {}, TRUE, TRUE)
  \/ \E c \in CompanyIds, u \in UserIds : promoteToAdmin(c, u)
  \/ \E c \in CompanyIds, w \in WorkspaceIds, u \in UserIds :
       promoteToWorkspaceAdmin(c, w, u, u)
  \/ \E c \in CompanyIds, w \in WorkspaceIds, u \in UserIds, a \in UserIds :
       revokeWorkspaceAdmin(c, w, u, a)
  \/ Tick(1)
  \/ \E c \in CompanyIds :
       \E read \in ReadOrders(companyMemberships(c)) : listMembers(c, read)
  \/ \E c \in CompanyIds, u \in UserIds :
       \E read \in ReadOrders(anyActiveMembership(c, u)) : getMemberRoles(c, u, read)

SpecReports == InitMembers /\ [][NextReports]_vars

\* Companies are created, get workspaces and admins, and are deactivated or
\* deleted, and users ask for the list of their companies.
NextMyCompanies ==
  \/ \E t \in TaxIds, e \in Emails :
       createCompany(t, e, {}, TRUE, TRUE) /\ LifecycleRows'
  \/ \E c \in CompanyIds, e \in Emails :
       createWorkspace(c, e, {}, TRUE, TRUE) /\ LifecycleRows'
  \/ \E c \in CompanyIds, u \in UserIds : promoteToAdmin(c, u) /\ LifecycleRows'
  \/ \E c \in CompanyIds : deactivateCompany(c)
  \/ \E c \in CompanyIds : deleteCompany(c)
  \/ \E c \in CompanyIds, w \in WorkspaceIds : deleteWorkspace(c, w)
  \/ \E u \in UserIds :
       \E read \in ReadOrders(directMemberships(u)) : getMyCompanies(u, read)

SpecMyCompanies == Init /\ [][NextMyCompanies]_vars

\* two company admins revoking each other at the same time, in the company
\* of InitMembers once the admin of a second workspace was promoted
NextRevoke ==
  \/ \E c \in CompanyIds, e \in Emails : createWorkspace(c, e, {}, TRUE, TRUE)
  \/ \E c \in CompanyIds, u \in UserIds : promoteToAdmin(c, u)
  \/ \E k \in Callers, c \in CompanyIds, u \in UserIds, a \in UserIds :
       revokeAdmin_findFirst(k, c, u, a)
  \/ \E k \in Callers : revokeAdmin_count(k)
  \/ \E k \in Callers : revokeAdmin_update(k)

SpecRevoke == InitMembers /\ [][NextRevoke]_vars

\* provisioning requests with and without dto.adminName
AdminNames == {{}} \cup {{n} : n \in Names}

NextNames ==
  \/ \E t \in TaxIds, e \in Emails, n \in AdminNames :
       createCompany(t, e, n, TRUE, TRUE) /\ LifecycleRows'
  \/ \E c \in CompanyIds, e \in Emails, n \in AdminNames :
       createWorkspace(c, e, n, TRUE, TRUE) /\ LifecycleRows'

SpecNames == Init /\ [][NextNames]_vars

\* ---------------------------------------------------------- companies
\* The superadmin creates, renames and soft-deletes companies, one request at
\* a time.
NextCompany ==
  \/ \E t \in TaxIds, e \in Emails : createCompany(t, e, {}, TRUE, TRUE)
  \/ \E c \in CompanyIds, t \in {{}} \cup {{x} : x \in TaxIds} : updateCompany(c, t)
  \/ \E c \in CompanyIds : deleteCompany(c)

SpecCompany == Init /\ [][NextCompany]_vars

\* ------------------------------------------------- workspace member rows
\* A database that also holds a workspace-scope row of role member: company 1 and
\* workspace 1 as createCompany(1, a@x) and createWorkspace(1, a@x) leave them
\* (user 2 is the company admin and the workspace admin), and the superuser
\* (user 1) as a plain member of workspace 1.  The schema admits the row and
\* promoteToWorkspaceAdmin has a branch for it; no method of the services
\* inserts a workspace-scope row with a role other than workspace_admin.
InitRows ==
  /\ calls = NoCalls
  /\ users = <<[email |-> SeedEmail, name |-> SeedName,
                passwordHash |-> Bcrypt(SeedPassword), mustResetPassword |-> FALSE,
                isActive |-> TRUE, isSuperuser |-> TRUE, deletedAt |-> Null],
               provisionedUser(<<"a", "@", "x">>, <<"a">>)>>
  /\ companies = <<[taxId |-> 1, legalName |-> LegalNameOf(1),
                    isActive |-> TRUE, deletedAt |-> Null]>>
  /\ workspaces = <<[companyId |-> 1, isActive |-> TRUE, deletedAt |-> Null]>>
  /\ memberships = <<[userId |-> 2, resourceType |-> "company", resourceId |-> 1,
                      role |-> "admin", createdAt |-> 0, deletedAt |-> Null],
                     [userId |-> 2, resourceType |-> "workspace", resourceId |-> 1,
                      role |-> "workspace_admin", createdAt |-> 0, deletedAt |-> Null],
                     [userId |-> 1, resourceType |-> "workspace", resourceId |-> 1,
                      role |-> "member", createdAt |-> 0, deletedAt |-> Null]>>
  /\ tokens = <<[userId |-> 2, tokenHash |-> Sha256(1), type |-> "first_access",
                 usedAt |-> Null, expiresAt |-> FirstAccessTtl]>>
  /\ now = 0
  /\ ticks = 0
  /\ lastOp = [op |-> "createWorkspace", result |-> "ok", message |-> "", token |-> 0,
               mails |-> <<>>,
               admin |-> [id |-> 2, columns |-> UserColumns \ {"passwordHash"}],
               body |-> NoBody]

\* the member operations from either database
SpecRows == (InitMembers \/ InitRows) /\ [][NextMembers]_vars

\* ---------------------------------------------------- credential lifecycle
RawTokens == 1..MaxTokens

\* the database after the seed and one createCompany(1, a@x) by the superuser:
\* a provisioned admin who has not yet set a password, with the first-access
\* token (raw token 1) that createCompany issued
InitAuth ==
  /\ calls = NoCalls
  /\ users = <<[email |-> SeedEmail, name |-> SeedName,
                passwordHash |-> Bcrypt(SeedPassword), mustResetPassword |-> FALSE,
                isActive |-> TRUE, isSuperuser |-> TRUE, deletedAt |-> Null],
               [email |-> <<"a", "@", "x">>, name |-> <<"a">>,
                passwordHash |-> PlaceholderHash, mustResetPassword |-> TRUE,
                isActive |-> TRUE, isSuperuser |-> FALSE, deletedAt |-> Null]>>
  /\ companies = <<[taxId |-> 1, legalName |-> LegalNameOf(1),
                    isActive |-> TRUE, deletedAt |-> Null]>>
  /\ workspaces = <<>>
  /\ memberships = <<[userId |-> 2, resourceType |-> "company", resourceId |-> 1,
                      role |-> "admin", createdAt |-> 0, deletedAt |-> Null]>>
  /\ tokens = <<[userId |-> 2, tokenHash |-> Sha256(1), type |-> "first_access",
                 usedAt |-> Null, expiresAt |-> FirstAccessTtl]>>
  /\ now = 0
  /\ ticks = 0
  /\ lastOp = [op |-> "createCompany", result |-> "ok", message |-> "", token |-> 1,
               mails |-> <<Mail("first_access", <<"a", "@", "x">>, TRUE)>>,
               admin |-> [id |-> 2, columns |-> {"id", "name", "email"}],
               body |-> NoBody]

NextAuth ==
  \/ \E e \in Emails, sent \in BOOLEAN : forgotPassword(e, sent)
  \/ \E r \in RawTokens, p \in Passwords, q \in Passwords, ok \in BOOLEAN :
       confirmResetPassword(r, p, q, ok)
  \/ \E r \in RawTokens, p \in Passwords, q \in Passwords, n \in Names, ok \in BOOLEAN :
       consumeFirstAccessToken(r, p, q, n, ok)
  \/ \E u \in UserIds : generateFirstAccessToken(u)
  \/ \E u \in UserIds : getOrRegenerateFirstAccessToken(u)
  \/ \E u \in UserIds : invalidateUserCredentials(u)
  \/ \E d \in {PasswordResetTtl + 1, FirstAccessTtl + 1} : Tick(d)

SpecAuth == InitAuth /\ [][NextAuth]_vars

\* two callers issuing tokens at the same time
NextIssue ==
  \/ \E k \in Callers, u \in UserIds : generateFirstAccessToken_updateMany(k, u)
  \/ \E k \in Callers : generateFirstAccessToken_create(k)
  \/ \E k \in Callers, e \in Emails : forgotPassword_findFirst(k, e)
  \/ \E k \in Callers : forgotPassword_updateMany(k)
  \/ \E k \in Callers, sent \in BOOLEAN : forgotPassword_create(k, sent)

\* guarded requests between the operations that give and take the authority
\* of a company admin
NextGuard ==
  \/ \E c \in CompanyIds, e \in Emails : createWorkspace(c, e, {}, TRUE, TRUE)
  \/ \E c \in CompanyIds, u \in UserIds : promoteToAdmin(c, u)
  \/ \E c \in CompanyIds, u \in UserIds, a \in UserIds : revokeAdmin(c, u, a)
  \/ \E c \in CompanyIds, m \in MembershipIds, a \in UserIds :
       deactivateMembership(c, m, a)
  \/ \E c \in CompanyIds : deactivateCompany(c)
  \/ \E c \in CompanyIds : deleteCompany(c)
  \/ \E u \in UserIds, c \in CompanyIds : canActivate(u, c)

SpecGuard == InitAuth /\ [][NextGuard]_vars

SpecIssue == InitAuth /\ [][NextIssue]_vars

\* two callers consuming tokens at the same time; forgotPassword issues the
\* password-reset token they consume
NextConsume ==
  \/ \E e \in Emails : forgotPassword(e, TRUE)
  \/ \E k \in Callers, r \in RawTokens, p \in Passwords, q \in Passwords, n \in Names :
       consumeFirstAccessToken_findUnique(k, r, p, q, n)
  \/ \E k \in Callers, ok \in BOOLEAN : consumeFirstAccessToken_transaction(k, ok)
  \/ \E k \in Callers, r \in RawTokens, p \in Passwords, q \in Passwords :
       confirmResetPassword_findUnique(k, r, p, q)
  \/ \E k \in Callers, ok \in BOOLEAN : confirmResetPassword_transaction(k, ok)

SpecConsume == InitAuth /\ [][NextConsume]_vars

\* ================================================================= claims
\* C1: in every reachable state every created company has at least one
\* active company-scope membership with role admin.
C1_EveryCompanyHasAdmin == \A c \in CompanyIds : adminsOf(c) # {}

\* C2: for every (userId, resourceType, resourceId) at most one membership
\* row with deletedAt = null exists.
C2_AtMostOneActiveRow ==
  \A m1, m2 \in MembershipIds :
    ( /\ memberships[m1].deletedAt = Null
      /\ memberships[m2].deletedAt = Null
      /\ memberships[m1].userId = memberships[m2].userId
      /\ memberships[m1].resourceType = memberships[m2].resourceType
      /\ memberships[m1].resourceId = memberships[m2].resourceId ) => m1 = m2

\* the target's admin row is the only active admin row of the company
SoleAdmin(companyId, targetUserId) ==
  /\ activeAdminRows(companyId, targetUserId) # {}
  /\ adminsOf(companyId) = activeAdminRows(companyId, targetUserId)
  /\ Cardinality(adminsOf(companyId)) = 1

\* C3: revokeAdmin with actor # target on the sole active admin of the
\* company fails with BadRequest and changes no membership row.
C3_RevokeSoleAdminRejected ==
  [][\A c \in CompanyIds, t \in UserIds, a \in UserIds :
       (lastOp'.op = "revokeAdmin" /\ a # t /\ SoleAdmin(c, t) /\ revokeAdmin(c, t, a))
         => /\ lastOp'.result = "BadRequest"
            /\ memberships' = memberships
            /\ \A m \in activeAdminRows(c, t) : memberships'[m].deletedAt = Null]_vars

\* C3 witness: revokeAdmin was just rejected as "only admin" and the company
\* still has its one admin row active
C3_Witness ==
  /\ lastOp.op = "revokeAdmin"
  /\ lastOp.result = "BadRequest"
  /\ lastOp.message = "onlyAdmin"
  /\ \E c \in CompanyIds : Cardinality(adminsOf(c)) = 1

\* C4: deactivateMembership on an admin row with no other active admin row
\* in the company fails with BadRequest before any write, whatever non-admin
\* company-scope rows exist.
C4_DeactivateLastAdminRejected ==
  [][\A c \in CompanyIds, m \in MembershipIds, a \in UserIds :
       ( /\ lastOp'.op = "deactivateMembership"
         /\ m \in adminsOf(c)
         /\ adminsOf(c) \ {m} = {}
         /\ deactivateMembership(c, m, a) )
         => /\ lastOp'.result = "BadRequest"
            /\ memberships' = memberships]_vars

\* the stored row of a raw token has the given kind
StoredKind(rawToken, type) ==
  \E t \in findToken(Sha256(rawToken)) : tokens[t].type = type

\* C5: a consume whose stored token kind differs from the expected kind fails
\* with BadRequest and changes neither tokens nor users:
\* consumeFirstAccessToken on a password_reset token, confirmResetPassword on
\* a first_access token.
C5_WrongKindRejected ==
  [][\A p \in Passwords, q \in Passwords, n \in Names, ok \in BOOLEAN :
       LET r == lastOp'.token IN
       /\ ( /\ lastOp'.op = "consumeFirstAccessToken"
            /\ StoredKind(r, "password_reset")
            /\ consumeFirstAccessToken(r, p, q, n, ok) )
            => (lastOp'.result = "BadRequest" /\ UNCHANGED <<users, tokens>>)
       /\ ( /\ lastOp'.op = "confirmResetPassword"
            /\ StoredKind(r, "first_access")
            /\ confirmResetPassword(r, p, q, ok) )
            => (lastOp'.result = "BadRequest" /\ UNCHANGED <<users, tokens>>)]_vars

\* a newer first_access token of the same user exists
Superseded(rawToken) ==
  \E t \in findToken(Sha256(rawToken)), t2 \in TokenIds :
    /\ t2 > t
    /\ tokens[t].type = "first_access"
    /\ tokens[t2].type = "first_access"
    /\ tokens[t2].userId = tokens[t].userId

\* C6: generateFirstAccessToken(user) marks every earlier first_access token
\* of the user used, and a consumeFirstAccessToken with a raw token that a
\* newer first_access token of the same user superseded fails with BadRequest
\* and changes nothing.
C6_OlderFirstAccessRejected ==
  [][/\ \A u \in UserIds :
          generateFirstAccessToken(u) =>
            \A t \in TokenIds :
              (tokens[t].userId = u /\ tokens[t].type = "first_access")
                => tokens'[t].usedAt # Null
     /\ \A p \in Passwords, q \in Passwords, n \in Names, ok \in BOOLEAN :
          LET r == lastOp'.token IN
          ( /\ lastOp'.op = "consumeFirstAccessToken"
            /\ Superseded(r)
            /\ consumeFirstAccessToken(r, p, q, n, ok) )
            => (lastOp'.result = "BadRequest" /\ UNCHANGED <<users, tokens>>)]_vars

\* C6 witness: a consumeFirstAccessToken with matching passwords was just
\* rejected for a superseded token that had not expired
C6_Witness ==
  /\ lastOp.op = "consumeFirstAccessToken"
  /\ lastOp.result = "BadRequest"
  /\ lastOp.message = "invalidToken"
  /\ Superseded(lastOp.token)
  /\ tokens[lastOp.token].expiresAt >= now

\* C7: issuing a first_access token changes no password_reset row and no row
\* of another user; forgotPassword changes no first_access row and no row of
\* another user.
C7_KindIsolation ==
  [][/\ \A u \in UserIds :
          (lastOp'.op = "generateFirstAccessToken" /\ generateFirstAccessToken(u)) =>
            \A t \in TokenIds :
              (tokens[t].type = "password_reset" \/ tokens[t].userId # u)
                => tokens'[t] = tokens[t]
     /\ \A e \in Emails, sent \in BOOLEAN :
          (lastOp'.op = "forgotPassword" /\ forgotPassword(e, sent)) =>
            \A t \in TokenIds :
              (tokens[t].type = "first_access" \/ tokens[t].userId \notin findUserByEmail(e))
                => tokens'[t] = tokens[t]]_vars

\* C7 witness: a first_access token was just issued to a user who holds an
\* unused, unexpired password_reset token
C7_Witness ==
  /\ lastOp.op = "generateFirstAccessToken"
  /\ \E t \in TokenIds :
       /\ tokens[t].userId = tokens[lastOp.token].userId
       /\ tokens[t].type = "password_reset"
       /\ tokens[t].usedAt = Null
       /\ tokens[t].expiresAt >= now

\* the stored row of a raw token is marked used
Used(rawToken) == \E t \in findToken(Sha256(rawToken)) : tokens[t].usedAt # Null

AllOrNothing(rawToken, data) ==
  \/ UNCHANGED <<users, tokens>>
  \/ /\ rawToken \in TokenIds
     /\ tokens[rawToken].usedAt = Null
     /\ tokens' = [tokens EXCEPT ![rawToken].usedAt = now]
     /\ \A f \in DOMAIN data : users'[tokens[rawToken].userId][f] = data[f]
     /\ \A u \in UserIds : u # tokens[rawToken].userId => users'[u] = users[u]

\* C9: every consume step, also one whose transaction fails, either writes
\* nothing or both marks the token used and applies the credential change.
C9_ConsumeAtomic ==
  [][\A p \in Passwords, q \in Passwords, n \in Names, ok \in BOOLEAN :
       LET r == lastOp'.token IN
       /\ (lastOp'.op = "confirmResetPassword" /\ confirmResetPassword(r, p, q, ok))
            => AllOrNothing(r, [passwordHash |-> Bcrypt(p), mustResetPassword |-> FALSE])
       /\ (lastOp'.op = "consumeFirstAccessToken" /\ consumeFirstAccessToken(r, p, q, n, ok))
            => AllOrNothing(r, [passwordHash |-> Bcrypt(p), mustResetPassword |-> FALSE,
                                name |-> Trim(n)])]_vars

\* C9 witness: the transaction of a consumeFirstAccessToken just failed; the
\* token is still unused and the user still has the placeholder credential
C9_Witness ==
  /\ lastOp.op = "consumeFirstAccessToken"
  /\ lastOp.result = "InternalServerError"
  /\ tokens[lastOp.token].usedAt = Null
  /\ users[tokens[lastOp.token].userId].mustResetPassword
  /\ users[tokens[lastOp.token].userId].passwordHash = PlaceholderHash

\* unused first_access rows of a user in a token table
UnusedFirstAccess(rows, userId) ==
  {t \in DOMAIN rows :
     rows[t].userId = userId /\ rows[t].type = "first_access" /\ rows[t].usedAt = Null}

\* C10: getOrRegenerateFirstAccessToken for a user with mustResetPassword =
\* false returns null and changes nothing; with mustResetPassword = true it
\* appends one token and leaves exactly one unused first_access token, the
\* new one, for the user.
C10_GetOrRegenerate ==
  [][\A u \in UserIds :
       ( /\ lastOp'.op = "getOrRegenerateFirstAccessToken"
         /\ getOrRegenerateFirstAccessToken(u) ) =>
         IF ~users[u].mustResetPassword
         THEN /\ lastOp'.message = "null"
              /\ lastOp'.token = 0
              /\ UNCHANGED <<users, tokens>>
         ELSE /\ Len(tokens') = Len(tokens) + 1
              /\ UnusedFirstAccess(tokens', u) = {Len(tokens')}
              /\ lastOp'.token = Len(tokens')
              /\ users' = users]_vars

\* C10 witness: a repeated call: the user has three first_access tokens, the
\* last one just returned by getOrRegenerateFirstAccessToken
C10_Witness ==
  /\ lastOp.op = "getOrRegenerateFirstAccessToken"
  /\ lastOp.token = 3
  /\ \A t \in TokenIds :
       tokens[t].type = "first_access" /\ tokens[t].userId = tokens[3].userId
  /\ UnusedFirstAccess(tokens, tokens[3].userId) = {3}

\* the step changed no membership row of the user, gave the user no new row
\* and changed none of the user's columns
OwnRowsUnchanged(userId) ==
  /\ users'[userId] = users[userId]
  /\ \A m \in DOMAIN memberships' :
       memberships'[m].userId = userId =>
         (m \in MembershipIds /\ memberships'[m] = memberships[m])

\* C11: with actor = target, removeMember, updateMember and revokeAdmin fail
\* with BadRequest, and these and revokeWorkspaceAdmin, promoteToWorkspaceAdmin
\* and deactivateMembership (on a row of the actor) leave every membership row
\* and every user column of the actor unchanged.
C11_NoSelfApplication ==
  [][\A c \in CompanyIds, a \in UserIds :
       /\ ( /\ lastOp'.op \in {"removeMember", "updateMember", "revokeAdmin"}
            /\ \/ removeMember(c, a, a)
               \/ revokeAdmin(c, a, a)
               \/ \E v \in {{TRUE}, {FALSE}} : updateMember(c, a, v, a) )
            => (lastOp'.result = "BadRequest" /\ OwnRowsUnchanged(a))
       /\ ( /\ lastOp'.op \in {"revokeWorkspaceAdmin", "promoteToWorkspaceAdmin"}
            /\ \E w \in WorkspaceIds :
                 \/ revokeWorkspaceAdmin(c, w, a, a)
                 \/ promoteToWorkspaceAdmin(c, w, a, a) )
            => OwnRowsUnchanged(a)
       /\ ( /\ lastOp'.op = "deactivateMembership"
            /\ \E m \in MembershipIds :
                 memberships[m].userId = a /\ deactivateMembership(c, m, a) )
            => OwnRowsUnchanged(a)]_vars

\* the four generic member / workspace-role operations on one target
GenericMemberOp(c, t, a) ==
  \/ \E v \in {{TRUE}, {FALSE}} : updateMember(c, t, v, a)
  \/ removeMember(c, t, a)
  \/ \E w \in WorkspaceIds : promoteToWorkspaceAdmin(c, w, t, a)
  \/ \E w \in WorkspaceIds : revokeWorkspaceAdmin(c, w, t, a)

GenericMemberOps ==
  {"updateMember", "removeMember", "promoteToWorkspaceAdmin", "revokeWorkspaceAdmin"}

\* no active admin-role row is soft-deleted by the step
NoAdminRowSoftDeleted ==
  \A m \in MembershipIds :
    (memberships[m].role = "admin" /\ memberships[m].deletedAt = Null)
      => memberships'[m].deletedAt = Null

\* C12 as stated: when the target holds an active company-scope admin row,
\* updateMember, removeMember, promoteToWorkspaceAdmin and
\* revokeWorkspaceAdmin each fail with Forbidden and write nothing, and
\* removeMember never soft-deletes an admin-role row.
C12_AdminUntouchable_Stated ==
  [][\A c \in CompanyIds, t \in UserIds, a \in UserIds :
       /\ ( /\ lastOp'.op \in GenericMemberOps
            /\ activeAdminRows(c, t) # {}
            /\ GenericMemberOp(c, t, a) )
            => /\ lastOp'.result = "Forbidden"
               /\ UNCHANGED <<users, memberships>>
       /\ (lastOp'.op = "removeMember" /\ removeMember(c, t, a))
            => NoAdminRowSoftDeleted]_vars

\* C12 amended: as stated, except that updateMember and removeMember with
\* actor = target fail with BadRequest (the self check comes first); nothing
\* is written in either case.
C12_AdminUntouchable ==
  [][\A c \in CompanyIds, t \in UserIds, a \in UserIds :
       /\ ( /\ lastOp'.op \in GenericMemberOps
            /\ activeAdminRows(c, t) # {}
            /\ GenericMemberOp(c, t, a) )
            => /\ lastOp'.result =
                    IF a = t /\ lastOp'.op \in {"updateMember", "removeMember"}
                    THEN "BadRequest" ELSE "Forbidden"
               /\ UNCHANGED <<users, memberships>>
       /\ (lastOp'.op = "removeMember" /\ removeMember(c, t, a))
            => NoAdminRowSoftDeleted]_vars

\* C12 witness: removeMember was just refused with Forbidden, and the company
\* has an admin who also holds a workspace row that removeMember would match
C12_Witness ==
  /\ lastOp.op = "removeMember"
  /\ lastOp.result = "Forbidden"
  /\ \E c \in CompanyIds, m \in MembershipIds :
       /\ memberships[m].resourceType = "workspace"
       /\ memberships[m].deletedAt = Null
       /\ memberships[m].resourceId \in workspaceIdsOf(c)
       /\ activeAdminRows(c, memberships[m].userId) # {}

\* what C13 says of a promoteToWorkspaceAdmin step whose user has the active
\* row e at the workspace: Conflict and no write if e is a workspace_admin
\* row, else only e's role changes; no row is added
SameRowUpgraded(e) ==
  /\ Len(memberships') = Len(memberships)
  /\ IF memberships[e].role = "workspace_admin"
     THEN lastOp'.result = "Conflict" /\ memberships' = memberships
     ELSE /\ lastOp'.result = "ok"
          /\ memberships' = [memberships EXCEPT ![e].role = "workspace_admin"]

companyRowsAfter(userId, companyId) ==
  {m \in DOMAIN memberships' :
     /\ memberships'[m].userId = userId
     /\ memberships'[m].resourceType = "company"
     /\ memberships'[m].resourceId = companyId
     /\ memberships'[m].deletedAt = Null}

\* the step created no company-scope row and changed none
CompanyRowsUnchanged ==
  \A m \in DOMAIN memberships' :
    memberships'[m].resourceType = "company"
      => (m \in MembershipIds /\ memberships'[m] = memberships[m])

\* operations on existing users other than promoteToWorkspaceAdmin
OtherMemberOps ==
  {"createWorkspace", "promoteToAdmin", "revokeAdmin", "deactivateMembership",
   "updateMember", "removeMember", "revokeWorkspaceAdmin"}

\* no existing user without an active company-scope row gets one by the step
NoCompanyRowAutoCreated ==
  \A u \in UserIds, c \in CompanyIds :
    activeAt(u, "company", c) = {} => companyRowsAfter(u, c) = {}

\* what C14 says of a successful promoteToWorkspaceAdmin(c, ., u, .)
ImplicitCompanyRow(c, u) ==
  IF activeAt(u, "company", c) = {}
  THEN \E m \in companyRowsAfter(u, c) :
         /\ companyRowsAfter(u, c) = {m}
         /\ memberships'[m].role = "member"
  ELSE CompanyRowsUnchanged

NothingWritten ==
  UNCHANGED <<users, companies, workspaces, memberships, tokens>>

\* C15: promoteToWorkspaceAdmin for a user with no active membership at the
\* company or at any of its non-deleted workspaces fails with NotFound;
\* promoteToAdmin fails with NotFound for a user with no active company-scope
\* membership and with Conflict for a user holding an active admin membership;
\* none of these writes a row.
C15_PromotionGated ==
  [][/\ \A c \in CompanyIds, w \in WorkspaceIds, u \in UserIds, a \in UserIds :
          ( /\ lastOp'.op = "promoteToWorkspaceAdmin"
            /\ anyActiveMembership(c, u) = {}
            /\ promoteToWorkspaceAdmin(c, w, u, a) )
            => lastOp'.result = "NotFound" /\ NothingWritten
     /\ \A c \in CompanyIds, u \in UserIds :
          (lastOp'.op = "promoteToAdmin" /\ promoteToAdmin(c, u))
            => /\ activeAt(u, "company", c) = {}
                    => lastOp'.result = "NotFound" /\ NothingWritten
               /\ activeAdminRows(c, u) # {}
                    => lastOp'.result = "Conflict" /\ NothingWritten]_vars

\* C15 witness: promoteToWorkspaceAdmin was just refused for the superuser,
\* who has no active membership at company 1 or at its workspaces, although
\* workspace 1 is the company's
C15_Witness ==
  /\ lastOp.op = "promoteToWorkspaceAdmin"
  /\ lastOp.result = "NotFound"
  /\ lastOp.message = "notMember"
  /\ anyActiveMembership(1, 1) = {}
  /\ 1 \in workspaceIdsOf(1)

\* C15 second witness: promoteToAdmin was just refused with Conflict
C15_WitnessConflict ==
  /\ lastOp.op = "promoteToAdmin"
  /\ lastOp.result = "Conflict"
  /\ \E c \in CompanyIds, u \in UserIds : activeAdminRows(c, u) # {}

\* workspace_admin rows of a workspace among the rows after the step
adminRowsAfter(workspaceId) ==
  {m \in DOMAIN memberships' :
     /\ memberships'[m].resourceType = "workspace"
     /\ memberships'[m].resourceId = workspaceId
     /\ memberships'[m].role = "workspace_admin"
     /\ memberships'[m].deletedAt = Null}

\* createWorkspace(c, e, ..) wrote every row of its branch
WorkspaceProvisioned(c, e) ==
  LET w == Len(workspaces) + 1
      u == Len(users) + 1
  IN
  /\ DOMAIN workspaces' = 1..w
  /\ workspaces'[w].companyId = c
  /\ \A x \in WorkspaceIds : workspaces'[x] = workspaces[x]
  /\ \A m \in MembershipIds : memberships'[m] = memberships[m]
  /\ IF findUserByEmail(e) = {}
     THEN /\ DOMAIN users' = 1..u
          /\ users'[u].email = e
          /\ \A x \in UserIds : users'[x] = users[x]
          /\ companyRowsAfter(u, c) # {}
          /\ \A m \in companyRowsAfter(u, c) : memberships'[m].role = "member"
          /\ \E m \in adminRowsAfter(w) : memberships'[m].userId = u
          /\ Len(memberships') = Len(memberships) + 2
     ELSE /\ users' = users
          /\ \E m \in adminRowsAfter(w) : memberships'[m].userId \in findUserByEmail(e)
          /\ Len(memberships') = Len(memberships) + 1

\* every workspace has a workspace_admin row
EveryWorkspaceHasAdminRow ==
  \A w \in WorkspaceIds :
    \E m \in MembershipIds :
      /\ memberships[m].resourceType = "workspace"
      /\ memberships[m].resourceId = w
      /\ memberships[m].role = "workspace_admin"

\* C16: createWorkspace is all-or-nothing: after it either the workspace row,
\* the admin's workspace_admin row and, for a new email, the user row and its
\* company-scope member row all exist, or the call failed and none of them
\* does; and no step leads to a state that has a workspace without a
\* workspace_admin row (the seeded database has no workspace).
C16_CreateWorkspaceAtomic ==
  [][/\ EveryWorkspaceHasAdminRow'
     /\ \A c \in CompanyIds, e \in Emails, k \in BOOLEAN, ms \in BOOLEAN :
          (lastOp'.op = "createWorkspace" /\ createWorkspace(c, e, {}, k, ms))
            => \/ lastOp'.result = "ok" /\ WorkspaceProvisioned(c, e)
               \/ lastOp'.result # "ok" /\ NothingWritten]_vars

\* C16 witness: a createWorkspace whose transaction failed has just left
\* company 1 without any workspace, user or membership of its own
C16_Witness ==
  /\ lastOp.op = "createWorkspace"
  /\ lastOp.result = "InternalServerError"
  /\ Len(companies) = 1
  /\ Len(workspaces) = 0
  /\ Len(memberships) = 1

\* C16 second witness: createWorkspace provisioned a new user with its two
\* rows and the workspace
C16_WitnessProvisioned ==
  /\ lastOp.op = "createWorkspace"
  /\ lastOp.result = "ok"
  /\ Len(lastOp.mails) = 1
  /\ Len(workspaces) = 1
  /\ Len(memberships) = 3
  /\ Len(users) = 3

\* the provisioning step for adminEmail e issued one first-access token for
\* the new user and handed one first-access email for e to the mailer
NewAdminInvited(e) ==
  /\ Len(tokens') = Len(tokens) + 1
  /\ tokens'[Len(tokens')].type = "first_access"
  /\ tokens'[Len(tokens')].usedAt = Null
  /\ tokens'[Len(tokens')].userId = Len(users) + 1
  /\ Len(lastOp'.mails) = 1
  /\ lastOp'.mails[1].kind = "first_access"
  /\ lastOp'.mails[1].to = e

\* the step issued no token, sent nothing and changed no user; if it
\* succeeded, the returned admin is the existing user of email e
NobodyInvited(e) ==
  /\ tokens' = tokens
  /\ lastOp'.mails = <<>>
  /\ users' = users
  /\ lastOp'.result = "ok" => lastOp'.admin.id \in findUserByEmail(e)

\* what C17 says of one provisioning step for adminEmail e
InvitedIffNew(e) ==
  IF lastOp'.result = "ok" /\ findUserByEmail(e) = {}
  THEN NewAdminInvited(e)
  ELSE NobodyInvited(e)

\* C17: a successful createWorkspace or createCompany issues one first-access
\* token and hands one first-access notification to the mailer if and only if
\* adminEmail matched no non-deleted user; when it matched, no token is
\* issued, nothing is sent, the user row is unchanged and admin.id is that
\* user's id.
C17_InvitedIffNew ==
  [][/\ \A t \in TaxIds, e \in Emails, k \in BOOLEAN, ms \in BOOLEAN :
          (lastOp'.op = "createCompany" /\ createCompany(t, e, {}, k, ms))
            => InvitedIffNew(e)
     /\ \A c \in CompanyIds, e \in Emails, k \in BOOLEAN, ms \in BOOLEAN :
          (lastOp'.op = "createWorkspace" /\ createWorkspace(c, e, {}, k, ms))
            => InvitedIffNew(e)]_vars

\* C17 witness: createWorkspace just bound an existing user (the seeded
\* superuser) as the admin of a new workspace, with no token and no email
C17_Witness ==
  /\ lastOp.op = "createWorkspace"
  /\ lastOp.result = "ok"
  /\ lastOp.mails = <<>>
  /\ lastOp.admin.id = 1
  /\ \E m \in MembershipIds :
       /\ memberships[m].userId = 1
       /\ memberships[m].role = "workspace_admin"
  /\ \A t \in TokenIds : tokens[t].userId # 1

\* C17 second witness: createCompany just invited a new admin
C17_WitnessInvited ==
  /\ lastOp.op = "createCompany"
  /\ lastOp.result = "ok"
  /\ Len(lastOp.mails) = 1
  /\ Len(users) = 2
  /\ Len(tokens) = 1
  /\ tokens[1].userId = 2

\* the mailer refused a notification of the step
MailerFailed ==
  \E i \in DOMAIN lastOp'.mails : ~lastOp'.mails[i].delivered

\* C18: when the mailer fails in createWorkspace, createCompany or
\* forgotPassword, the operation still returns its success result and the
\* token row it wrote remains.
C18_MailFailureSilent ==
  [][( /\ lastOp'.op \in {"createWorkspace", "createCompany", "forgotPassword"}
       /\ MailerFailed )
       => /\ lastOp'.result = "ok"
          /\ Len(tokens') = Len(tokens) + 1]_vars

\* C19: the admin object returned by a successful createWorkspace or
\* createCompany has no passwordHash field, for a new and for a reused user.
C19_NoPasswordHashReturned ==
  (lastOp.op \in {"createWorkspace", "createCompany"} /\ lastOp.result = "ok")
    => "passwordHash" \notin lastOp.admin.columns

\* no two non-deleted companies share a taxId
UniqueActiveTaxId ==
  \A c \in CompanyIds, d \in CompanyIds :
    ( /\ c # d
      /\ companies[c].deletedAt = Null
      /\ companies[d].deletedAt = Null )
      => companies[c].taxId # companies[d].taxId

\* C20: after every step of a sequence of createCompany, updateCompany and
\* deleteCompany no two non-deleted companies share a taxId; createCompany with the taxId of
\* a non-deleted company fails with Conflict and writes no row; a taxId held
\* only by a soft-deleted company passes the check (no Conflict).
C20_TaxIdUnique ==
  [][/\ UniqueActiveTaxId'
     /\ \A t \in TaxIds, e \in Emails, k \in BOOLEAN, ms \in BOOLEAN :
          (lastOp'.op = "createCompany" /\ createCompany(t, e, {}, k, ms))
            => IF \E c \in CompanyIds :
                    companies[c].taxId = t /\ companies[c].deletedAt = Null
               THEN lastOp'.result = "Conflict" /\ NothingWritten
               ELSE lastOp'.result # "Conflict"]_vars

\* C20 witness: createCompany with the taxId of a non-deleted company was
\* just refused with Conflict
C20_Witness ==
  /\ lastOp.op = "createCompany"
  /\ lastOp.result = "Conflict"
  /\ Len(companies) = 1
  /\ companies[1].deletedAt = Null

\* C20 second witness: a createCompany with the taxId of a soft-deleted
\* company passed the check; the unique index then refused the insert
C20_WitnessSoftDeleted ==
  /\ lastOp.op = "createCompany"
  /\ lastOp.result = "InternalServerError"
  /\ Len(companies) = 1
  /\ companies[1].deletedAt # Null


\* C21: forgotPassword for an email of no non-deleted user, or of an inactive
\* user only, returns success and has no effect: no token is invalidated or
\* created and nothing is handed to the mailer.
C21_UnknownOrInactiveIgnored ==
  [][\A e \in Emails, sent \in BOOLEAN :
       ( /\ lastOp'.op = "forgotPassword"
         /\ \A u \in UserIds :
              (users[u].email = e /\ users[u].deletedAt = Null) => ~users[u].isActive
         /\ forgotPassword(e, sent) )
         => /\ lastOp'.result = "ok"
            /\ lastOp'.mails = <<>>
            /\ NothingWritten]_vars

\* C21 witness: a reset request was just ignored while the only user able to
\* be inactivated (user 1) is inactive and still holds an unused reset token
C21_Witness ==
  /\ lastOp.op = "forgotPassword"
  /\ lastOp.result = "ok"
  /\ lastOp.message = "ignored"
  /\ ~users[1].isActive
  /\ \E t \in TokenIds :
       /\ tokens[t].userId = 1
       /\ tokens[t].type = "password_reset"
       /\ tokens[t].usedAt = Null


\* the active rows of user u at company c or at its non-deleted workspaces
rowsAtCompany(c, u) ==
  {m \in anyActiveMembership(c, u) : TRUE}

\* the report has exactly one row per non-deleted user with a row at the
\* company, with the highest-ranked role among the user's rows
HighestRoleListed ==
  lastOp.op = "listMembers" =>
    LET c == lastOp.body.companyId IN
    \A u \in UserIds :
      LET rows == {r \in lastOp.body.data : r.userId = u} IN
      IF rowsAtCompany(c, u) = {} \/ users[u].deletedAt # Null
      THEN rows = {}
      ELSE /\ Cardinality(rows) = 1
           /\ \A r \in rows, m \in rowsAtCompany(c, u) :
                RoleRank(r.role) >= RoleRank(memberships[m].role)
           /\ \A r \in rows : \E m \in rowsAtCompany(c, u) : memberships[m].role = r.role

\* C22: listMembers returns one row per user, with the highest-ranked role
\* among the user's active memberships at the company and its non-deleted
\* workspaces and, as memberSince, the earliest createdAt among them, in
\* whatever order the membership rows were read.
C22_ListMembersConsolidated ==
  /\ HighestRoleListed
  /\ lastOp.op = "listMembers" =>
       \A r \in lastOp.body.data :
         \A m \in rowsAtCompany(lastOp.body.companyId, r.userId) :
           r.memberSince <= memberships[m].createdAt


\* the role the raw rows give user u at a scope: "null" without an active
\* row there, else the role every active row there has
RawRole(role, u, resourceType, resourceId) ==
  IF activeAt(u, resourceType, resourceId) = {}
  THEN role = "null"
  ELSE \A m \in activeAt(u, resourceType, resourceId) : role = memberships[m].role

\* the workspace part of a getMemberRoles report: one entry per non-deleted
\* workspace of the company, with the raw role of the user there
WorkspaceRolesRaw ==
  (lastOp.op = "getMemberRoles" /\ lastOp.result = "ok") =>
    LET b == lastOp.body IN
    /\ DOMAIN b.workspaceRoles = workspaceIdsOf(b.companyId)
    /\ \A w \in DOMAIN b.workspaceRoles :
         RawRole(b.workspaceRoles[w], b.userId, "workspace", w)

\* C23: getMemberRoles reports one entry per non-deleted workspace of the
\* company, with the role of the user's active membership there or null,
\* and a companyRole equal to the role of the user's active company-scope
\* membership or null; a company admin without workspace rows gets null for
\* every workspace.
C23_MemberRolesRaw ==
  /\ WorkspaceRolesRaw
  /\ (lastOp.op = "getMemberRoles" /\ lastOp.result = "ok") =>
       RawRole(lastOp.body.companyRole, lastOp.body.userId, "company",
               lastOp.body.companyId)


\* the companies getMyCompanies is to list for user u
listedFor(u) ==
  {c \in CompanyIds :
     /\ companies[c].deletedAt = Null
     /\ companies[c].isActive
     /\ \/ activeAt(u, "company", c) # {}
        \/ \E w \in workspaceIdsOf(c) : activeAt(u, "workspace", w) # {}}

\* the report lists each such company exactly once and no other, ordered by
\* role rank descending and then by legalName ascending
CompaniesListedInOrder ==
  lastOp.op = "getMyCompanies" =>
    LET data == lastOp.body.data IN
    /\ \A c \in CompanyIds :
         Cardinality({i \in DOMAIN data : data[i].companyId = c})
           = IF c \in listedFor(lastOp.body.userId) THEN 1 ELSE 0
    /\ \A i \in DOMAIN data, j \in DOMAIN data :
         i < j =>
           \/ RoleRank(data[i].role) > RoleRank(data[j].role)
           \/ /\ RoleRank(data[i].role) = RoleRank(data[j].role)
              /\ data[i].legalName <= data[j].legalName

\* C24: getMyCompanies lists each active, non-deleted company where the user
\* has an active company-scope membership or an active membership at one of
\* its non-deleted workspaces exactly once, ordered by role rank descending
\* and legalName ascending; the role is the user's direct company-scope role
\* when there is one and workspace_admin otherwise.
C24_MyCompanies ==
  /\ CompaniesListedInOrder
  /\ lastOp.op = "getMyCompanies" =>
       \A i \in DOMAIN lastOp.body.data :
         LET e == lastOp.body.data[i] IN
         IF activeAt(lastOp.body.userId, "company", e.companyId) = {}
         THEN e.role = "workspace_admin"
         ELSE RawRole(e.role, lastOp.body.userId, "company", e.companyId)

\* the user row a provisioning request of email e and name n has to create
NamedAsAsked(e, n) ==
  LET u == users'[Len(users')]
  IN /\ u.mustResetPassword
     /\ u.name = IF n # {} THEN CHOOSE x \in n : TRUE ELSE LocalPart(e)

\* createCompany names the user it creates after dto.adminName, or after the
\* local part of the email without one; createWorkspace always after the
\* local part; both set mustResetPassword
NewAdminRow ==
  [][\A e \in Emails, n \in AdminNames :
       /\ ( /\ Len(users') = Len(users) + 1
            /\ lastOp'.op = "createCompany"
            /\ \E t \in TaxIds : createCompany(t, e, n, TRUE, TRUE) )
          => NamedAsAsked(e, n)
       /\ ( /\ Len(users') = Len(users) + 1
            /\ lastOp'.op = "createWorkspace"
            /\ \E c \in CompanyIds : createWorkspace(c, e, n, TRUE, TRUE) )
          => NamedAsAsked(e, {})]_vars

\* C25: in the new-email branch of createWorkspace and of createCompany the
\* created user has mustResetPassword = true and the name dto.adminName when
\* one was supplied, the local part of adminEmail only when none was
C25_NewAdminNamed ==
  [][\A e \in Emails, n \in AdminNames :
       /\ Len(users') = Len(users) + 1
       /\ \/ /\ lastOp'.op = "createCompany"
             /\ \E t \in TaxIds : createCompany(t, e, n, TRUE, TRUE)
          \/ /\ lastOp'.op = "createWorkspace"
             /\ \E c \in CompanyIds : createWorkspace(c, e, n, TRUE, TRUE)
       => NamedAsAsked(e, n)]_vars

\* callers 1 and 2 are two admins of company c revoking each other
MutualRevocation(c) ==
  /\ calls[1].op = "revokeAdmin" /\ calls[2].op = "revokeAdmin"
  /\ calls[1].args[1] = c /\ calls[2].args[1] = c
  /\ calls[1].args[2] = calls[2].args[3]
  /\ calls[1].args[3] = calls[2].args[2]
  /\ calls[1].args[2] # calls[1].args[3]

\* both revocations have counted one other admin and neither has written
C26_WitnessBothCounted ==
  \E c \in CompanyIds :
    /\ MutualRevocation(c)
    /\ calls[1].pc = "update" /\ calls[2].pc = "update"
    /\ adminsOf(c) = {calls[1].read, calls[2].read}
    /\ calls[1].read # calls[2].read

\* C26: the revocation is racy: a revokeAdmin that has counted another admin
\* writes and succeeds whatever was written since its count, so two admins
\* revoking each other can both count one other admin, both succeed and leave
\* the company with no active admin membership
C26_RevocationRace ==
  [][\A k \in Callers :
       At(k, "revokeAdmin", "update") /\ calls'[k] # calls[k]
       => /\ calls'[k].pc = "done" /\ calls'[k].result = "ok"
          /\ memberships'[calls[k].read].deletedAt # Null]_vars

\* both succeeded and no admin is left
C26_Witness ==
  \E c \in CompanyIds :
    /\ MutualRevocation(c)
    /\ calls[1].pc = "done" /\ calls[2].pc = "done"
    /\ calls[1].result = "ok" /\ calls[2].result = "ok"
    /\ adminsOf(c) = {}

\* the unused tokens of one kind a user has
unusedTokens(u, type) ==
  {t \in TokenIds : /\ tokens[t].userId = u
                    /\ tokens[t].type = type
                    /\ tokens[t].usedAt = Null}

\* callers 1 and 2 have both completed an issue call of this kind for user u
BothIssued(u, op) ==
  \A k \in Callers :
    /\ calls[k].op = op /\ calls[k].pc = "done" /\ calls[k].result = "ok"
    /\ \/ op = "generateFirstAccessToken" /\ calls[k].args = <<u>>
       \/ op = "forgotPassword" /\ calls[k].read = u

\* C27: under any interleaving of two concurrent issue calls of the same kind
\* for the same user, once both have completed at most one unused token of
\* that kind exists for the user
C27_IssueAtomic ==
  \A u \in UserIds :
    /\ BothIssued(u, "generateFirstAccessToken")
       => Cardinality(unusedTokens(u, "first_access")) <= 1
    /\ BothIssued(u, "forgotPassword")
       => Cardinality(unusedTokens(u, "password_reset")) <= 1

\* callers 1 and 2 both consumed the same token successfully
BothConsumed ==
  /\ calls[1].op = calls[2].op
  /\ calls[1].op \in {"consumeFirstAccessToken", "confirmResetPassword"}
  /\ calls[1].pc = "done" /\ calls[2].pc = "done"
  /\ calls[1].result = "ok" /\ calls[2].result = "ok"
  /\ calls[1].read = calls[2].read

\* C28: a token yields at most one successful consume even when two consume
\* requests carrying the same valid raw token run concurrently
C28_ConsumedOnce == ~BothConsumed

\* the company is soft-deleted or inactive
CompanyClosed(c) == companies[c].deletedAt # Null \/ ~companies[c].isActive

\* an admin membership of u at c was soft-deleted
AdminRowRevoked(u, c) ==
  \E m \in MembershipIds :
    /\ memberships[m].userId = u
    /\ memberships[m].resourceType = "company"
    /\ memberships[m].resourceId = c
    /\ memberships[m].role = "admin"
    /\ memberships[m].deletedAt # Null

\* the guard admitted exactly the actors that are admins of an open company
\* in the rows of this moment (the guard writes no row)
AdmittedIffAdminNow ==
  lastOp.op = "canActivate" =>
    LET u == lastOp.body.userId
        c == lastOp.body.companyId
    IN /\ lastOp.result \in {"ok", "Forbidden"}
       /\ lastOp.result = "ok" <=> activeAdminRows(c, u) # {} /\ ~CompanyClosed(c)

\* C29 as stated: the guard admits an actor iff at that moment the actor has
\* an active company-scope admin membership and the company is non-deleted
\* and active; and once an admin membership of the user was soft-deleted, or
\* the company deactivated or soft-deleted, every later guarded request of
\* the user for the company is rejected with Forbidden
C29_RevokedForGood ==
  /\ AdmittedIffAdminNow
  /\ lastOp.op = "canActivate" =>
       LET u == lastOp.body.userId
           c == lastOp.body.companyId
       IN AdminRowRevoked(u, c) \/ CompanyClosed(c) => lastOp.result = "Forbidden"

\* C29, amended: the guard admits an actor iff at that moment the actor has
\* an active company-scope admin membership and the company is non-deleted
\* and active; hence a user whose admin membership was soft-deleted is
\* rejected with Forbidden for as long as no new admin membership was given
\* to them, and everybody is once the company was deactivated or soft-deleted
C29_GuardReadsCurrentRows ==
  /\ AdmittedIffAdminNow
  /\ lastOp.op = "canActivate" =>
       LET u == lastOp.body.userId
           c == lastOp.body.companyId
       IN \/ AdminRowRevoked(u, c) /\ activeAdminRows(c, u) = {}
          \/ CompanyClosed(c)
          => lastOp.result = "Forbidden"

\* a revoked admin was rejected in an open company
C29_Witness ==
  /\ lastOp.op = "canActivate"
  /\ lastOp.result = "Forbidden"
  /\ AdminRowRevoked(lastOp.body.userId, lastOp.body.companyId)
  /\ ~CompanyClosed(lastOp.body.companyId)

\* an admin was rejected in a closed company
C29_WitnessClosed ==
  /\ lastOp.op = "canActivate"
  /\ lastOp.result = "Forbidden"
  /\ activeAdminRows(lastOp.body.companyId, lastOp.body.userId) # {}
  /\ CompanyClosed(lastOp.body.companyId)

\* the active rows u holds at company c or at a non-deleted workspace of it
rowsWithin(c, u) ==
  {m \in MembershipIds :
     /\ memberships[m].userId = u
     /\ memberships[m].deletedAt = Null
     /\ \/ memberships[m].resourceType = "company" /\ memberships[m].resourceId = c
        \/ /\ memberships[m].resourceType = "workspace"
           /\ \E w \in WorkspaceIds : /\ w = memberships[m].resourceId
                                      /\ workspaces[w].companyId = c
                                      /\ workspaces[w].deletedAt = Null}

\* a successful removeMember(c, u, ..) left u no active row within c, every
\* other row as it was, and removed no row
RemovedWithin(c, u) ==
  lastOp'.result = "ok" =>
    /\ rowsWithin(c, u)' = {}
    /\ DOMAIN memberships' = DOMAIN memberships
    /\ \A m \in MembershipIds \ rowsWithin(c, u) : memberships'[m] = memberships[m]
    /\ \A m \in rowsWithin(c, u) :
         memberships'[m] = [memberships[m] EXCEPT !.deletedAt = now]

\* C30 as stated: a successful removeMember leaves the target no active
\* membership at the company or its non-deleted workspaces and changes or
\* removes no other row; when the target had no such active membership the
\* call fails with NotFound and changes nothing
C30_RemoveMemberFrame_Stated ==
  [][lastOp'.op = "removeMember" =>
       \A c \in CompanyIds, u \in UserIds, a \in UserIds :
         removeMember(c, u, a) =>
           /\ RemovedWithin(c, u)
           /\ rowsWithin(c, u) = {} =>
                lastOp'.result = "NotFound" /\ NothingWritten]_vars

\* C30, amended: as stated, but a target without such a membership that is
\* the actor itself is answered BadRequest (and nothing is changed)
C30_RemoveMemberFrame ==
  [][lastOp'.op = "removeMember" =>
       \A c \in CompanyIds, u \in UserIds, a \in UserIds :
         removeMember(c, u, a) =>
           /\ RemovedWithin(c, u)
           /\ rowsWithin(c, u) = {} =>
                /\ lastOp'.result = IF u = a THEN "BadRequest" ELSE "NotFound"
                /\ NothingWritten]_vars

\* a member was removed from one company and still holds a row in another
C30_Witness ==
  /\ lastOp.op = "removeMember" /\ lastOp.result = "ok"
  /\ \E u \in UserIds, m \in MembershipIds, n \in MembershipIds :
       /\ memberships[m].userId = u /\ memberships[n].userId = u
       /\ memberships[m].resourceType = "company"
       /\ memberships[n].resourceType = "company"
       /\ memberships[m].resourceId # memberships[n].resourceId
       /\ memberships[m].deletedAt # Null
       /\ memberships[n].deletedAt = Null
       /\ rowsWithin(memberships[m].resourceId, u) = {}

\* somebody who is no member was not found
C30_WitnessNotFound == lastOp.op = "removeMember" /\ lastOp.result = "NotFound"

====
